---- MODULE Spec2Model ----
(***************************************************************************)
(* A model of katahiromz/EbnfParser: the ISO EBNF token stream and parser  *)
(* of EBNF.hpp (version 9) and the AST algebra of bnf_ast.hpp (version 26) *)
(* (equality, ordering, canonicalization, rule joining, rule insertion).   *)
(*                                                                         *)
(* std::string values are sequences of character codes, so that            *)
(* operator< on strings is the lexicographic order the code uses.          *)
(* An AST node is a record [atype, str, num, vec]: atype is the AstType    *)
(* tag, str the node's string member (m_str / m_name), num the integer     *)
(* member, vec the owned children (m_vec; <<m_left, m_right>>; <<m_arg>>,  *)
(* or <<>> for a NULL m_arg).                                              *)
(***************************************************************************)
EXTENDS Integers, Sequences, FiniteSets, TLC

\* ------------------------------------------------------------------------
\* Strings

\* "rule", "-", "*", "=": BinaryAst::m_str
S_rule == <<114, 117, 108, 101>>
S_minus == <<45>>
S_star == <<42>>
S_assign == <<61>>
\* "rules", "expr", "terms", "defs": SeqAst::m_str
S_rules == <<114, 117, 108, 101, 115>>
S_expr == <<101, 120, 112, 114>>
S_terms == <<116, 101, 114, 109, 115>>
S_defs == <<100, 101, 102, 115>>
\* "optional", "repeated", "group": UnaryAst::m_str
S_optional == <<111, 112, 116, 105, 111, 110, 97, 108>>
S_repeated == <<114, 101, 112, 101, 97, 116, 101, 100>>
S_group == <<103, 114, 111, 117, 112>>
\* one-letter names used by the inputs
S_a == <<97>>
S_b == <<98>>
S_c == <<99>>
S_a_02 == <<97, 45, 48, 50>>
S_2 == <<50>>
S_x == <<120>>
S_y == <<121>>

MinOf(S) == CHOOSE m \in S : \A k \in S : m <= k

\* std::string operator<: lexicographic on the characters, a proper prefix first
StrLess(s, t) ==
    LET n == IF Len(s) < Len(t) THEN Len(s) ELSE Len(t)
        d == {i \in 1..n : s[i] # t[i]}
    IN  IF d = {} THEN Len(s) < Len(t)
        ELSE s[MinOf(d)] < t[MinOf(d)]

\* ------------------------------------------------------------------------
\* AST nodes (bnf_ast.hpp; EBNF.hpp declares the same eight node types)

ATYPE_INTEGER == 0
ATYPE_STRING == 1
ATYPE_BINARY == 2
ATYPE_IDENT == 3
ATYPE_UNARY == 4
ATYPE_SEQ == 5
ATYPE_SPECIAL == 6
ATYPE_EMPTY == 7

\* the NULL pointer
NULL == [atype |-> -1, str |-> <<>>, num |-> 0, vec |-> <<>>]

IntegerAst(n) == [atype |-> ATYPE_INTEGER, str |-> <<>>, num |-> n, vec |-> <<>>]
StringAst(s) == [atype |-> ATYPE_STRING, str |-> s, num |-> 0, vec |-> <<>>]
SpecialAst(s) == [atype |-> ATYPE_SPECIAL, str |-> s, num |-> 0, vec |-> <<>>]
EmptyAst == [atype |-> ATYPE_EMPTY, str |-> <<>>, num |-> 0, vec |-> <<>>]
UnaryAst(s, arg) == [atype |-> ATYPE_UNARY, str |-> s, num |-> 0, vec |-> <<arg>>]
BinaryAst(s, l, r) == [atype |-> ATYPE_BINARY, str |-> s, num |-> 0, vec |-> <<l, r>>]
SeqAst(s, v) == [atype |-> ATYPE_SEQ, str |-> s, num |-> 0, vec |-> v]

\* bnf_ast::IdentAst::IdentAst: every '-' and ' ' of the name becomes '_'
IdentAst(name) ==
    [atype |-> ATYPE_IDENT,
     str |-> [i \in 1..Len(name) |-> IF name[i] = 45 \/ name[i] = 32 THEN 95 ELSE name[i]],
     num |-> 0, vec |-> <<>>]

m_left(b) == b.vec[1]
m_right(b) == b.vec[2]
m_arg(u) == u.vec[1]

get_group(n) == n.atype = ATYPE_UNARY /\ n.str = S_group
get_terms(n) == n.atype = ATYPE_SEQ /\ n.str = S_terms
get_expr(n) == n.atype = ATYPE_SEQ /\ n.str = S_expr

\* virtual bool empty() const
RECURSIVE empty(_)
empty(n) ==
    CASE n.atype = ATYPE_EMPTY -> TRUE
      [] n.atype = ATYPE_STRING -> n.str = <<>>
      [] n.atype = ATYPE_SEQ ->
            IF n.str = S_rules THEN FALSE
            ELSE \A i \in 1..Len(n.vec) : empty(n.vec[i])
      [] OTHER -> FALSE

\* ------------------------------------------------------------------------
\* bnf_ast::ast_equal and ast_less_than with already_sorted = true

\* ast_equal(ast1, ast2, true)
RECURSIVE ast_equal_sorted(_, _)
ast_equal_sorted(ast1, ast2) ==
    IF ast1.atype # ast2.atype THEN FALSE
    ELSE CASE ast1.atype = ATYPE_INTEGER -> ast1.num = ast2.num
           [] ast1.atype = ATYPE_STRING -> ast1.str = ast2.str
           [] ast1.atype = ATYPE_BINARY ->
                 IF ast1.str # ast2.str THEN FALSE
                 ELSE ast_equal_sorted(m_left(ast1), m_left(ast2))
                      /\ ast_equal_sorted(m_right(ast1), m_right(ast2))
           [] ast1.atype = ATYPE_IDENT -> ast1.str = ast2.str
           [] ast1.atype = ATYPE_UNARY ->
                 \* u1 = ast1->get_unary_ast(); u2 = ast1->get_unary_ast();
                 LET u1 == ast1
                     u2 == ast1
                 IN  IF u1.str # u2.str THEN FALSE
                     ELSE IF (u1.vec = <<>>) # (u2.vec = <<>>) THEN FALSE
                     ELSE ast_equal_sorted(m_arg(u1), m_arg(u2))
           [] ast1.atype = ATYPE_SEQ ->
                 IF ast1.str # ast2.str THEN FALSE
                 ELSE IF Len(ast1.vec) # Len(ast2.vec) THEN FALSE
                 ELSE \A i \in 1..Len(ast1.vec) :
                         ast_equal_sorted(ast1.vec[i], ast2.vec[i])
           [] ast1.atype = ATYPE_SPECIAL -> ast1.str = ast2.str
           [] ast1.atype = ATYPE_EMPTY -> TRUE

\* ast_less_than(ast1, ast2, true)
RECURSIVE ast_less_than_sorted(_, _)
ast_less_than_sorted(ast1, ast2) ==
    IF ast1.atype < ast2.atype THEN TRUE
    ELSE IF ast1.atype > ast2.atype THEN FALSE
    ELSE CASE ast1.atype = ATYPE_INTEGER -> ast1.num < ast2.num
           [] ast1.atype = ATYPE_STRING -> StrLess(ast1.str, ast2.str)
           [] ast1.atype = ATYPE_BINARY ->
                 IF StrLess(ast1.str, ast2.str) THEN TRUE
                 ELSE IF StrLess(ast2.str, ast1.str) THEN FALSE
                 ELSE IF ast_less_than_sorted(m_left(ast1), m_left(ast2)) THEN TRUE
                 ELSE IF ~ast_equal_sorted(m_left(ast1), m_left(ast2)) THEN FALSE
                 ELSE ast_less_than_sorted(m_right(ast1), m_right(ast2))
           [] ast1.atype = ATYPE_IDENT -> StrLess(ast1.str, ast2.str)
           [] ast1.atype = ATYPE_UNARY ->
                 IF StrLess(ast1.str, ast2.str) THEN TRUE
                 ELSE IF StrLess(ast2.str, ast1.str) THEN FALSE
                 ELSE IF (ast1.vec = <<>>) /\ (ast2.vec # <<>>) THEN TRUE
                 ELSE IF (ast1.vec # <<>>) /\ (ast2.vec = <<>>) THEN FALSE
                 ELSE ast_less_than_sorted(m_arg(ast1), m_arg(ast2))
           [] ast1.atype = ATYPE_SEQ ->
                 IF StrLess(ast1.str, ast2.str) THEN TRUE
                 ELSE IF StrLess(ast2.str, ast1.str) THEN FALSE
                 ELSE LET count == IF Len(ast1.vec) < Len(ast2.vec)
                                   THEN Len(ast1.vec) ELSE Len(ast2.vec)
                          d == {i \in 1..count :
                                   ~ast_equal_sorted(ast1.vec[i], ast2.vec[i])}
                      IN  IF d = {} THEN Len(ast1.vec) < Len(ast2.vec)
                          ELSE ast_less_than_sorted(ast1.vec[MinOf(d)], ast2.vec[MinOf(d)])
           [] ast1.atype = ATYPE_SPECIAL -> StrLess(ast1.str, ast2.str)
           [] ast1.atype = ATYPE_EMPTY -> FALSE

\* ------------------------------------------------------------------------
\* std::sort and SeqAst::unique

\* all reorderings of a vector
Permuted(vec) ==
    {[i \in 1..Len(vec) |-> vec[f[i]]] : f \in Permutations(1..Len(vec))}

\* whether the relation lt on the indices I (lt[i][j]: element i is less
\* than element j) is a strict weak ordering, which std::sort requires of
\* its comparator
IsStrictWeak(I, lt) ==
    LET eqv(i, j) == ~lt[i][j] /\ ~lt[j][i]
    IN  /\ \A i \in I : ~lt[i][i]
        /\ \A i, j, k \in I : lt[i][j] /\ lt[j][k] => lt[i][k]
        /\ \A i, j, k \in I : eqv(i, j) /\ eqv(j, k) => eqv(i, k)

\* std::sort of vec under the comparator whose results are lt: every
\* arrangement in which no element is less than an earlier one (the order of
\* equivalent elements is unspecified); with a comparator that is no strict
\* weak ordering the behaviour is undefined, and any arrangement may result
SortBy(vec, lt) ==
    LET I == 1..Len(vec)
    IN  IF Len(vec) <= 1 THEN {vec}
        ELSE IF IsStrictWeak(I, lt)
        THEN {[i \in I |-> vec[f[i]]] :
                 f \in {g \in Permutations(I) :
                           \A i, j \in I : i < j => ~lt[g[j]][g[i]]}}
        ELSE Permuted(vec)

\* std::sort(begin, end, Lt)
SortOutcomes(vec, Lt(_, _)) ==
    SortBy(vec, [i \in 1..Len(vec) |-> [j \in 1..Len(vec) |-> Lt(vec[i], vec[j])]])

RemoveAt(vec, i) == [k \in 1..(Len(vec) - 1) |-> IF k < i THEN vec[k] ELSE vec[k + 1]]

\* SeqAst::unique, from index i on (1-based): an element equal to its
\* successor is deleted.  (On an empty vector size() - 1 wraps around; an
\* "expr" built from a parsed tree is never empty.)
RECURSIVE unique_from(_, _)
unique_from(vec, i) ==
    IF i >= Len(vec) THEN vec
    ELSE IF ast_equal_sorted(vec[i], vec[i + 1])
         THEN unique_from(RemoveAt(vec, i), i)
         ELSE unique_from(vec, i + 1)

unique(vec) == unique_from(vec, 1)

\* ------------------------------------------------------------------------
\* sorted_clone: the set of trees the call may return

RECURSIVE sorted_clone(_)
RECURSIVE terms_clone_from(_, _)
RECURSIVE expr_clone_from(_, _)

\* SeqAst::sorted_clone, "terms" branch: the vectors built from m_vec[i..]
terms_clone_from(vec, i) ==
    IF i > Len(vec) THEN {<<>>}
    ELSE LET c == vec[i]
             rest == terms_clone_from(vec, i + 1)
         IN  IF empty(c) THEN rest
             ELSE IF get_group(c) /\ Len(m_arg(c).vec) = 1
                  THEN LET terms == m_arg(c).vec[1]
                       IN  IF empty(terms) THEN rest
                           ELSE {ct.vec \o r : ct \in sorted_clone(terms), r \in rest}
                  ELSE {<<cc>> \o r : cc \in sorted_clone(c), r \in rest}

\* SeqAst::sorted_clone, "expr" branch before the sort: an alternative that
\* is a single group is replaced by the alternatives of the group
expr_clone_from(vec, i) ==
    IF i > Len(vec) THEN {<<>>}
    ELSE LET terms == vec[i]
             rest == expr_clone_from(vec, i + 1)
         IN  IF get_terms(terms) /\ Len(terms.vec) = 1 /\ get_group(terms.vec[1])
             THEN {ce.vec \o r : ce \in sorted_clone(m_arg(terms.vec[1])), r \in rest}
             ELSE {<<cc>> \o r : cc \in sorted_clone(terms), r \in rest}

RECURSIVE rules_clone_from(_, _)
rules_clone_from(vec, i) ==
    IF i > Len(vec) THEN {<<>>}
    ELSE {<<cc>> \o r : cc \in sorted_clone(vec[i]), r \in rules_clone_from(vec, i + 1)}

sorted_clone(n) ==
    CASE n.atype = ATYPE_STRING -> IF n.str = <<>> THEN {EmptyAst} ELSE {n}
      [] n.atype = ATYPE_UNARY ->
            IF n.vec = <<>> THEN {n}
            ELSE {UnaryAst(n.str, c) : c \in sorted_clone(m_arg(n))}
      [] n.atype = ATYPE_BINARY ->
            {BinaryAst(n.str, l, r) :
                l \in sorted_clone(m_left(n)), r \in sorted_clone(m_right(n))}
      [] n.atype = ATYPE_SEQ ->
            IF n.str = S_terms
            THEN {SeqAst(n.str, v) : v \in terms_clone_from(n.vec, 1)}
            ELSE IF n.str = S_expr
            THEN {SeqAst(n.str, unique(s)) :
                     s \in UNION {SortOutcomes(v, ast_less_than_sorted) :
                                     v \in expr_clone_from(n.vec, 1)}}
            ELSE IF n.str = S_rules
            THEN {SeqAst(n.str, v) : v \in rules_clone_from(n.vec, 1)}
            ELSE {SeqAst(n.str, <<>>)}
      [] OTHER -> {n}

\* ------------------------------------------------------------------------
\* bnf_ast::ast_equal and ast_less_than with already_sorted = false: the set
\* of results the call may have, "true", "false", or "UB" when it reads
\* outside a vector (after which any result, or none, is possible)

Bool(b) == IF b THEN "true" ELSE "false"
Undefined == {"true", "false", "UB"}

\* l && r
AndThen(L, R) ==
    (L \cap {"UB", "false"}) \cup (IF "true" \in L THEN R ELSE {})

\* the loop of ast_equal over the canonical clones, i < s1->size()
SeqEqualLoop(v1, v2, n) ==
    LET bad == {i \in 1..n : i > Len(v1) \/ i > Len(v2)
                                \/ ~ast_equal_sorted(v1[i], v2[i])}
    IN  IF bad = {} THEN {"true"}
        ELSE IF MinOf(bad) > Len(v1) \/ MinOf(bad) > Len(v2) THEN Undefined
        ELSE {"false"}

\* the loop of ast_less_than over the canonical clones, i < count
SeqLessLoop(v1, v2, count) ==
    LET d == {i \in 1..count : i > Len(v1) \/ i > Len(v2)
                                  \/ ~ast_equal_sorted(v1[i], v2[i])}
    IN  IF d = {} THEN {Bool(Len(v1) < Len(v2))}
        ELSE IF MinOf(d) > Len(v1) \/ MinOf(d) > Len(v2) THEN Undefined
        ELSE {Bool(ast_less_than_sorted(v1[MinOf(d)], v2[MinOf(d)]))}

RECURSIVE ast_equal(_, _)
ast_equal(ast1, ast2) ==
    IF ast1.atype # ast2.atype THEN {"false"}
    ELSE CASE ast1.atype = ATYPE_BINARY ->
                 IF ast1.str # ast2.str THEN {"false"}
                 ELSE AndThen(ast_equal(m_left(ast1), m_left(ast2)),
                              ast_equal(m_right(ast1), m_right(ast2)))
           [] ast1.atype = ATYPE_UNARY ->
                 \* u1 = ast1->get_unary_ast(); u2 = ast1->get_unary_ast();
                 LET u1 == ast1
                     u2 == ast1
                 IN  IF u1.str # u2.str THEN {"false"}
                     ELSE IF (u1.vec = <<>>) # (u2.vec = <<>>) THEN {"false"}
                     ELSE ast_equal(m_arg(u1), m_arg(u2))
           [] ast1.atype = ATYPE_SEQ ->
                 IF ast1.str # ast2.str THEN {"false"}
                 ELSE IF Len(ast1.vec) # Len(ast2.vec) THEN {"false"}
                 ELSE UNION {SeqEqualLoop(c1.vec, c2.vec, Len(ast1.vec)) :
                                c1 \in sorted_clone(ast1), c2 \in sorted_clone(ast2)}
           [] OTHER -> {Bool(ast_equal_sorted(ast1, ast2))}

RECURSIVE ast_less_than(_, _)
ast_less_than(ast1, ast2) ==
    IF ast1.atype < ast2.atype THEN {"true"}
    ELSE IF ast1.atype > ast2.atype THEN {"false"}
    ELSE CASE ast1.atype = ATYPE_BINARY ->
                 IF StrLess(ast1.str, ast2.str) THEN {"true"}
                 ELSE IF StrLess(ast2.str, ast1.str) THEN {"false"}
                 ELSE LET L == ast_less_than(m_left(ast1), m_left(ast2))
                          E == ast_equal(m_left(ast1), m_left(ast2))
                      IN  (L \cap {"UB", "true"})
                          \cup (IF "false" \in L
                                THEN AndThen(E, ast_less_than(m_right(ast1), m_right(ast2)))
                                ELSE {})
           [] ast1.atype = ATYPE_UNARY ->
                 IF StrLess(ast1.str, ast2.str) THEN {"true"}
                 ELSE IF StrLess(ast2.str, ast1.str) THEN {"false"}
                 ELSE IF (ast1.vec = <<>>) /\ (ast2.vec # <<>>) THEN {"true"}
                 ELSE IF (ast1.vec # <<>>) /\ (ast2.vec = <<>>) THEN {"false"}
                 ELSE ast_less_than(m_arg(ast1), m_arg(ast2))
           [] ast1.atype = ATYPE_SEQ ->
                 IF StrLess(ast1.str, ast2.str) THEN {"true"}
                 ELSE IF StrLess(ast2.str, ast1.str) THEN {"false"}
                 ELSE LET count == IF Len(ast1.vec) < Len(ast2.vec)
                                   THEN Len(ast1.vec) ELSE Len(ast2.vec)
                      IN  UNION {SeqLessLoop(c1.vec, c2.vec, count) :
                                    c1 \in sorted_clone(ast1), c2 \in sorted_clone(ast2)}
           [] OTHER -> {Bool(ast_less_than_sorted(ast1, ast2))}

\* the number of nodes of the tree n: what new has made for it, and what
\* delete n gives back (a destructor deletes the children)
RECURSIVE Count(_)
CountAll(vec) ==
    LET sum[k \in 0..Len(vec)] == IF k = 0 THEN 0 ELSE sum[k - 1] + Count(vec[k])
    IN  sum[Len(vec)]
Count(n) == IF n = NULL THEN 0 ELSE 1 + CountAll(n.vec)

\* ------------------------------------------------------------------------
\* The nodes that sorted_clone, ast_equal and ast_less_than make and delete:
\* each call with alive, which is BaseAst::alive_count() when the call
\* returns less its value when the call was entered

Counted(ast, alive) == [ast |-> ast, alive |-> alive]
CountedVec(vec, alive) == [vec |-> vec, alive |-> alive]
Outcome(ret, alive) == [ret |-> ret, alive |-> alive]

\* the nodes that SeqAst::unique deletes from index i on
RECURSIVE unique_deleted_from(_, _)
unique_deleted_from(vec, i) ==
    IF i >= Len(vec) THEN 0
    ELSE IF ast_equal_sorted(vec[i], vec[i + 1])
         THEN Count(vec[i]) + unique_deleted_from(RemoveAt(vec, i), i)
         ELSE unique_deleted_from(vec, i + 1)

RECURSIVE sorted_clone_alive(_)
RECURSIVE terms_alive_from(_, _)
RECURSIVE expr_alive_from(_, _)
RECURSIVE rules_alive_from(_, _)

\* SeqAst::sorted_clone, "terms" branch: the elements of cloned_terms are
\* moved into ast, and the emptied cloned_terms is deleted
terms_alive_from(vec, i) ==
    IF i > Len(vec) THEN {CountedVec(<<>>, 0)}
    ELSE LET c == vec[i]
             rest == terms_alive_from(vec, i + 1)
         IN  IF empty(c) THEN rest
             ELSE IF get_group(c) /\ Len(m_arg(c).vec) = 1
                  THEN LET terms == m_arg(c).vec[1]
                       IN  IF empty(terms) THEN rest
                           ELSE {CountedVec(ct.ast.vec \o r.vec,
                                            ct.alive - Count(SeqAst(S_terms, <<>>)) + r.alive) :
                                    ct \in sorted_clone_alive(terms), r \in rest}
                  ELSE {CountedVec(<<cc.ast>> \o r.vec, cc.alive + r.alive) :
                           cc \in sorted_clone_alive(c), r \in rest}

\* SeqAst::sorted_clone, "expr" branch before the sort: the elements of
\* cloned_expr are moved into ast, and the emptied cloned_expr is deleted
expr_alive_from(vec, i) ==
    IF i > Len(vec) THEN {CountedVec(<<>>, 0)}
    ELSE LET terms == vec[i]
             rest == expr_alive_from(vec, i + 1)
         IN  IF get_terms(terms) /\ Len(terms.vec) = 1 /\ get_group(terms.vec[1])
             THEN {CountedVec(ce.ast.vec \o r.vec,
                              ce.alive - Count(SeqAst(S_expr, <<>>)) + r.alive) :
                      ce \in sorted_clone_alive(m_arg(terms.vec[1])), r \in rest}
             ELSE {CountedVec(<<cc.ast>> \o r.vec, cc.alive + r.alive) :
                      cc \in sorted_clone_alive(terms), r \in rest}

rules_alive_from(vec, i) ==
    IF i > Len(vec) THEN {CountedVec(<<>>, 0)}
    ELSE {CountedVec(<<cc.ast>> \o r.vec, cc.alive + r.alive) :
             cc \in sorted_clone_alive(vec[i]), r \in rules_alive_from(vec, i + 1)}

\* "expr" after the loop: std::sort moves the elements, unique deletes
sorted_unique_alive(str, v) ==
    {Counted(SeqAst(str, unique(q)), 1 + v.alive - unique_deleted_from(q, 1)) :
        q \in SortOutcomes(v.vec, ast_less_than_sorted)}

\* sorted_clone: every node of the result is made by new
sorted_clone_alive(n) ==
    CASE n.atype = ATYPE_STRING ->
            IF n.str = <<>> THEN {Counted(EmptyAst, 1)} ELSE {Counted(n, 1)}
      [] n.atype = ATYPE_UNARY ->
            IF n.vec = <<>> THEN {Counted(n, 1)}
            ELSE {Counted(UnaryAst(n.str, c.ast), c.alive + 1) :
                     c \in sorted_clone_alive(m_arg(n))}
      [] n.atype = ATYPE_BINARY ->
            {Counted(BinaryAst(n.str, l.ast, r.ast), l.alive + r.alive + 1) :
                l \in sorted_clone_alive(m_left(n)), r \in sorted_clone_alive(m_right(n))}
      [] n.atype = ATYPE_SEQ ->
            IF n.str = S_terms
            THEN {Counted(SeqAst(n.str, v.vec), 1 + v.alive) : v \in terms_alive_from(n.vec, 1)}
            ELSE IF n.str = S_expr
            THEN UNION {sorted_unique_alive(n.str, v) : v \in expr_alive_from(n.vec, 1)}
            ELSE IF n.str = S_rules
            THEN {Counted(SeqAst(n.str, v.vec), 1 + v.alive) : v \in rules_alive_from(n.vec, 1)}
            ELSE {Counted(SeqAst(n.str, <<>>), 1)}
      [] OTHER -> {Counted(n, 1)}

\* the call L and, unless its result is in stop, the call R after it
Then(L, stop, R) ==
    {l \in L : l.ret \in stop}
    \cup UNION {{Outcome(r.ret, l.alive + r.alive) : r \in R} :
                   l \in {o \in L : o.ret \notin stop}}

\* the SeqAst case without the deletes before "return false"
seq_compared_keeps_on_false(seq1, seq2, results) ==
    {Outcome(r, IF r \in {"UB", "false"} THEN seq1.alive + seq2.alive
                ELSE seq1.alive + seq2.alive - Count(seq1.ast) - Count(seq2.ast)) :
        r \in results}

\* the end of the SeqAst case: seq1 and seq2 are the canonical clones and
\* results what the loop over them gives; delete seq1 and delete seq2 come
\* before every return, and a read outside a vector may end the run before
seq_compared(seq1, seq2, results) ==
    {Outcome(r, IF r = "UB" THEN seq1.alive + seq2.alive
                ELSE seq1.alive + seq2.alive - Count(seq1.ast) - Count(seq2.ast)) :
        r \in results}

RECURSIVE ast_equal_alive(_, _)
ast_equal_alive(ast1, ast2) ==
    IF ast1.atype # ast2.atype THEN {Outcome("false", 0)}
    ELSE CASE ast1.atype = ATYPE_BINARY ->
                 IF ast1.str # ast2.str THEN {Outcome("false", 0)}
                 ELSE Then(ast_equal_alive(m_left(ast1), m_left(ast2)), {"UB", "false"},
                           ast_equal_alive(m_right(ast1), m_right(ast2)))
           [] ast1.atype = ATYPE_UNARY ->
                 \* u1 = ast1->get_unary_ast(); u2 = ast1->get_unary_ast();
                 LET u1 == ast1
                     u2 == ast1
                 IN  IF u1.str # u2.str THEN {Outcome("false", 0)}
                     ELSE IF (u1.vec = <<>>) # (u2.vec = <<>>) THEN {Outcome("false", 0)}
                     ELSE ast_equal_alive(m_arg(u1), m_arg(u2))
           [] ast1.atype = ATYPE_SEQ ->
                 IF ast1.str # ast2.str THEN {Outcome("false", 0)}
                 ELSE IF Len(ast1.vec) # Len(ast2.vec) THEN {Outcome("false", 0)}
                 ELSE UNION {seq_compared(seq1, seq2,
                                          SeqEqualLoop(seq1.ast.vec, seq2.ast.vec, Len(ast1.vec))) :
                                seq1 \in sorted_clone_alive(ast1),
                                seq2 \in sorted_clone_alive(ast2)}
           [] OTHER -> {Outcome(Bool(ast_equal_sorted(ast1, ast2)), 0)}

RECURSIVE ast_less_than_alive(_, _)
ast_less_than_alive(ast1, ast2) ==
    IF ast1.atype < ast2.atype THEN {Outcome("true", 0)}
    ELSE IF ast1.atype > ast2.atype THEN {Outcome("false", 0)}
    ELSE CASE ast1.atype = ATYPE_BINARY ->
                 IF StrLess(ast1.str, ast2.str) THEN {Outcome("true", 0)}
                 ELSE IF StrLess(ast2.str, ast1.str) THEN {Outcome("false", 0)}
                 ELSE Then(ast_less_than_alive(m_left(ast1), m_left(ast2)), {"UB", "true"},
                           Then(ast_equal_alive(m_left(ast1), m_left(ast2)), {"UB", "false"},
                                ast_less_than_alive(m_right(ast1), m_right(ast2))))
           [] ast1.atype = ATYPE_UNARY ->
                 IF StrLess(ast1.str, ast2.str) THEN {Outcome("true", 0)}
                 ELSE IF StrLess(ast2.str, ast1.str) THEN {Outcome("false", 0)}
                 ELSE IF (ast1.vec = <<>>) /\ (ast2.vec # <<>>) THEN {Outcome("true", 0)}
                 ELSE IF (ast1.vec # <<>>) /\ (ast2.vec = <<>>) THEN {Outcome("false", 0)}
                 ELSE ast_less_than_alive(m_arg(ast1), m_arg(ast2))
           [] ast1.atype = ATYPE_SEQ ->
                 IF StrLess(ast1.str, ast2.str) THEN {Outcome("true", 0)}
                 ELSE IF StrLess(ast2.str, ast1.str) THEN {Outcome("false", 0)}
                 ELSE LET count == IF Len(ast1.vec) < Len(ast2.vec)
                                   THEN Len(ast1.vec) ELSE Len(ast2.vec)
                      IN  UNION {seq_compared(seq1, seq2,
                                              SeqLessLoop(seq1.ast.vec, seq2.ast.vec, count)) :
                                    seq1 \in sorted_clone_alive(ast1),
                                    seq2 \in sorted_clone_alive(ast2)}
           [] OTHER -> {Outcome(Bool(ast_less_than_sorted(ast1, ast2)), 0)}

\* ------------------------------------------------------------------------
\* Rule lists (bnf_ast.hpp): joining and insertion

ast_get_rule_name(rule) == m_left(rule).str

\* the merge with the alternatives of rule k put before those of rule i
join_pair_prepends(vec, i, k) ==
    LET bin1 == vec[i + 1]
        bin2 == vec[k + 1]
        joined == BinaryAst(bin1.str, m_left(bin1),
                            SeqAst(m_right(bin1).str,
                                   m_right(bin2).vec \o m_right(bin1).vec))
    IN  [j \in 1..(Len(vec) - 1) |->
            IF j = i + 1 THEN joined ELSE IF j < k + 1 THEN vec[j] ELSE vec[j + 1]]

\* the merge done for the rules at the 0-based indices i < k of the same
\* name: the alternatives of rule k are appended to those of rule i, and
\* rule k is erased
join_pair(vec, i, k) ==
    LET bin1 == vec[i + 1]
        bin2 == vec[k + 1]
        joined == BinaryAst(bin1.str, m_left(bin1),
                            SeqAst(m_right(bin1).str,
                                   m_right(bin1).vec \o m_right(bin2).vec))
    IN  RemoveAt([vec EXCEPT ![i + 1] = joined], k + 1)

RECURSIVE join_from(_, _, _, _)

\* the two loops with the --k after the erase left out
join_from_without_decrement(vec, i, k, ret) ==
    IF i + 1 >= Len(vec) THEN [vec |-> vec, ret |-> ret]
    ELSE IF k >= Len(vec) THEN join_from(vec, i + 1, i + 2, ret)
    ELSE IF ast_get_rule_name(vec[i + 1]) # ast_get_rule_name(vec[k + 1])
         THEN join_from(vec, i, k + 1, ret)
         ELSE join_from(join_pair(vec, i, k), i, k + 1, TRUE)

\* the two loops of ast_join_joinable_rules, from the 0-based indices i
\* (outer) and k (inner) on; after an erase the inner loop looks at index k
\* again
join_from(vec, i, k, ret) ==
    IF i + 1 >= Len(vec) THEN [vec |-> vec, ret |-> ret]
    ELSE IF k >= Len(vec) THEN join_from(vec, i + 1, i + 2, ret)
    ELSE IF ast_get_rule_name(vec[i + 1]) # ast_get_rule_name(vec[k + 1])
         THEN join_from(vec, i, k + 1, ret)
         ELSE join_from(join_pair(vec, i, k), i, k, TRUE)

\* ast_join_joinable_rules(rules): the rule list afterwards and the result
join_result(rules, j) == [rules |-> SeqAst(rules.str, j.vec), ret |-> j.ret]

ast_join_joinable_rules(rules) ==
    IF Len(rules.vec) = 0 THEN [rules |-> rules, ret |-> FALSE]
    ELSE join_result(rules, join_from(rules.vec, 0, 1, FALSE))

\* ast_get_rule_body(rules, rule_name): the body of the first rule of that
\* name, or NULL
ast_get_rule_body(rules, rule_name) ==
    LET named == {i \in 1..Len(rules.vec) : ast_get_rule_name(rules.vec[i]) = rule_name}
    IN  IF named = {} THEN NULL ELSE m_right(rules.vec[MinOf(named)])

IsDigit(c) == c \in 48..57

\* the largest int
INT_MAX == 2147483647

\* how atoi treats a string of digits whose value no int can hold (the
\* behaviour is undefined): the C library returns INT_MAX, or the low 32
\* bits of the value
Libs == {"saturating", "wrapping"}

\* the digits without their leading zeros
RECURSIVE StripZeros(_)
StripZeros(s) == IF s # <<>> /\ s[1] = 48 THEN StripZeros(Tail(s)) ELSE s

\* the value of the digits s is at most INT_MAX
FitsInt(s) ==
    LET z == StripZeros(s)
    IN  Len(z) < 10 \/ (Len(z) = 10 /\ ~StrLess(<<50, 49, 52, 55, 52, 56, 51, 54, 52, 55>>, z))

\* the low 32 bits of the value of the digits s, as <<high, low>> halves of
\* 16 bits
RECURSIVE Wrapped(_)
Wrapped(s) ==
    IF s = <<>> THEN <<0, 0>>
    ELSE LET w == Wrapped(SubSeq(s, 1, Len(s) - 1))
             low == w[2] * 10 + (s[Len(s)] - 48)
         IN  <<(w[1] * 10 + (low \div 65536)) % 65536, low % 65536>>

\* 32 bits read as an int
AsInt(w) == IF w[1] >= 32768 THEN (w[1] - 65536) * 65536 + w[2] ELSE w[1] * 65536 + w[2]

\* atoi of a string of digits, with the C library lib
atoi(s, lib) ==
    IF lib = "saturating" /\ ~FitsInt(s) THEN INT_MAX ELSE AsInt(Wrapped(s))

\* n + 1 on an int: INT_MAX + 1 wraps around
plus_one(n) == IF n = INT_MAX THEN (-INT_MAX) - 1 ELSE n + 1

\* the decimal digits of n >= 0
RECURSIVE Decimal(_)
Decimal(n) == IF n < 10 THEN <<48 + n>> ELSE Decimal(n \div 10) \o <<48 + (n % 10)>>

\* sprintf(buf, "%02u", n) with an int n: a negative n is printed as
\* 4294967296 + n = 10 * (429496729 + n \div 10) + 6 + n % 10
Format02u(n) ==
    IF n < 0
    THEN Decimal(429496729 + (n \div 10) + ((6 + (n % 10)) \div 10))
         \o <<48 + ((6 + (n % 10)) % 10)>>
    ELSE IF n < 10 THEN <<48>> \o Decimal(n) ELSE Decimal(n)

\* name_increment, with the C library lib
name_increment(name, lib) ==
    LET notDigit == {i \in 1..Len(name) : ~IsDigit(name[i])}
        last == CHOOSE i \in notDigit : \A k \in notDigit : k <= i
    IN  IF notDigit = {} \/ Len(name) \in notDigit THEN name \o <<95, 48, 50>>
        ELSE SubSeq(name, 1, last)
             \o Format02u(plus_one(atoi(SubSeq(name, last + 1, Len(name)), lib)))

\* ast_add_rule, first loop, from rule i (1-based) on: the rule found equal
\* to rule_expr ("found"), none ("none"), or a read outside a vector that
\* ends the program ("crash")
RECURSIVE add_rule_find(_, _, _)
add_rule_find(vec, i, rule_expr) ==
    IF i > Len(vec) THEN {[kind |-> "none", at |-> 0]}
    ELSE LET e == ast_equal(m_right(vec[i]), rule_expr)
         IN  (IF "true" \in e THEN {[kind |-> "found", at |-> i]} ELSE {})
             \cup (IF "UB" \in e THEN {[kind |-> "crash", at |-> i]} ELSE {})
             \cup (IF "false" \in e THEN add_rule_find(vec, i + 1, rule_expr) ELSE {})

\* ast_add_rule, second loop: name is incremented until no rule has it
RECURSIVE add_rule_name_with(_, _, _)
add_rule_name_with(vec, name, lib) ==
    IF \E i \in 1..Len(vec) : name = m_left(vec[i]).str
    THEN add_rule_name_with(vec, name_increment(name, lib), lib)
    ELSE name

\* the names that the second loop may end with
add_rule_name(vec, name) == {add_rule_name_with(vec, name, lib) : lib \in Libs}

\* ast_add_rule appending the first alternative of the clone in place of
\* the clone
add_rule_after_first_alternative(rules, name, rule_expr, found) ==
    IF found.kind = "crash"
    THEN {[rules |-> rules, name |-> name, status |-> "crashed"]}
    ELSE IF found.kind = "found"
    THEN {[rules |-> rules, name |-> m_left(rules.vec[found.at]).str, status |-> "found"]}
    ELSE {[rules |-> SeqAst(rules.str,
                            Append(rules.vec,
                                   BinaryAst(S_rule,
                                             IdentAst(fresh),
                                             expr.vec[1]))),
           name |-> fresh,
           status |-> "appended"] :
              expr \in sorted_clone(rule_expr), fresh \in add_rule_name(rules.vec, name)}

\* ast_add_rule after its assert: what the call may leave behind
add_rule_after(rules, name, rule_expr, found) ==
    IF found.kind = "crash"
    THEN {[rules |-> rules, name |-> name, status |-> "crashed"]}
    ELSE IF found.kind = "found"
    THEN {[rules |-> rules, name |-> m_left(rules.vec[found.at]).str, status |-> "found"]}
    ELSE {[rules |-> SeqAst(rules.str,
                            Append(rules.vec,
                                   BinaryAst(S_rule,
                                             IdentAst(fresh),
                                             expr))),
           name |-> fresh,
           status |-> "appended"] :
              expr \in sorted_clone(rule_expr), fresh \in add_rule_name(rules.vec, name)}

\* ast_add_rule(rules, name, rule_expr).  Its first statement is
\* assert(!ast_join_joinable_rules(rules)): a build with assertions joins
\* the rules and stops if any were joined, a build without them (NDEBUG)
\* does not evaluate the call.
ast_add_rule(rules, name, rule_expr, ndebug) ==
    IF ~ndebug /\ ast_join_joinable_rules(rules).ret
    THEN {[rules |-> ast_join_joinable_rules(rules).rules, name |-> name,
           status |-> "aborted"]}
    ELSE UNION {add_rule_after(rules, name, rule_expr, found) :
                   found \in add_rule_find(rules.vec, 1, rule_expr)}

\* ------------------------------------------------------------------------
\* EBNF::ast_equal, EBNF::ast_less_than and EBNF::SeqAst::sorted_clone
\* (EBNF.hpp), each the set of results the call may have

RECURSIVE E_sorted_clone(_)
RECURSIVE E_ast_equal(_, _)
RECURSIVE E_ast_less_than(_, _)
RECURSIVE E_clone_from(_, _)
RECURSIVE E_equal_loop(_, _, _, _)
RECURSIVE E_less_loop(_, _, _, _)

\* the sorted clones of m_vec[i..], before the sort
E_clone_from(vec, i) ==
    IF i > Len(vec) THEN {<<>>}
    ELSE {<<cc>> \o r : cc \in E_sorted_clone(vec[i]), r \in E_clone_from(vec, i + 1)}

\* std::sort(begin, end, ast_less_than); a comparator whose own result is
\* not determined is no strict weak ordering either
E_sort(vec) ==
    IF Len(vec) <= 1 THEN {vec}
    ELSE LET I == 1..Len(vec)
             res == [i \in I |-> [j \in I |-> E_ast_less_than(vec[i], vec[j])]]
         IN  IF \A i, j \in I : Cardinality(res[i][j]) = 1
             THEN SortBy(vec, [i \in I |-> [j \in I |-> res[i][j] = {"true"}]])
             ELSE Permuted(vec)

\* only a SeqAst sorts; every other node's sorted_clone is its clone
E_sorted_clone(n) ==
    IF n.atype = ATYPE_SEQ
    THEN {SeqAst(n.str, q) : q \in UNION {E_sort(v) : v \in E_clone_from(n.vec, 1)}}
    ELSE {n}

\* for (i = 0; i < s1->size(); ++i) if (!ast_equal(...)) return false;
E_equal_loop(v1, v2, i, n) ==
    IF i > n THEN {"true"}
    ELSE LET e == E_ast_equal(v1[i], v2[i])
         IN  (e \cap {"false"}) \cup (IF "true" \in e THEN E_equal_loop(v1, v2, i + 1, n) ELSE {})

E_ast_equal(ast1, ast2) ==
    IF ast1.atype # ast2.atype THEN {"false"}
    ELSE CASE ast1.atype = ATYPE_INTEGER -> {Bool(ast1.num = ast2.num)}
           [] ast1.atype = ATYPE_BINARY ->
                 IF ast1.str # ast2.str THEN {"false"}
                 ELSE AndThen(E_ast_equal(m_left(ast1), m_left(ast2)),
                              E_ast_equal(m_right(ast1), m_right(ast2)))
           [] ast1.atype = ATYPE_UNARY ->
                 IF ast1.str # ast2.str THEN {"false"}
                 ELSE IF (ast1.vec = <<>>) # (ast2.vec = <<>>) THEN {"false"}
                 ELSE E_ast_equal(m_arg(ast1), m_arg(ast2))
           [] ast1.atype = ATYPE_SEQ ->
                 IF ast1.str # ast2.str THEN {"false"}
                 ELSE IF Len(ast1.vec) # Len(ast2.vec) THEN {"false"}
                 ELSE UNION {E_equal_loop(s1.vec, s2.vec, 1, Len(s1.vec)) :
                                s1 \in E_sorted_clone(ast1), s2 \in E_sorted_clone(ast2)}
           [] ast1.atype = ATYPE_EMPTY -> {"true"}
           [] OTHER -> {Bool(ast1.str = ast2.str)}

\* for (i = 0; i < count; ++i)
\*     if (!ast_equal(...) && !ast_less_than(...)) return false;
\* return s1->size() < s2->size();
E_less_loop(v1, v2, i, count) ==
    IF i > count THEN {Bool(Len(v1) < Len(v2))}
    ELSE LET e == E_ast_equal(v1[i], v2[i])
             l == IF "false" \in e THEN E_ast_less_than(v1[i], v2[i]) ELSE {}
         IN  (IF "false" \in l THEN {"false"} ELSE {})
             \cup (IF "true" \in e \/ "true" \in l
                   THEN E_less_loop(v1, v2, i + 1, count) ELSE {})

E_ast_less_than(ast1, ast2) ==
    IF ast1.atype < ast2.atype THEN {"true"}
    ELSE IF ast1.atype > ast2.atype THEN {"false"}
    ELSE CASE ast1.atype = ATYPE_INTEGER -> {Bool(ast1.num < ast2.num)}
           [] ast1.atype = ATYPE_BINARY ->
                 IF StrLess(ast1.str, ast2.str) THEN {"true"}
                 ELSE IF StrLess(ast2.str, ast1.str) THEN {"false"}
                 ELSE LET L == E_ast_less_than(m_left(ast1), m_left(ast2))
                      IN  (L \cap {"true"})
                          \cup (IF "false" \in L
                                THEN E_ast_less_than(m_right(ast1), m_right(ast2))
                                ELSE {})
           [] ast1.atype = ATYPE_UNARY ->
                 IF StrLess(ast1.str, ast2.str) THEN {"true"}
                 ELSE IF StrLess(ast2.str, ast1.str) THEN {"false"}
                 ELSE IF (ast1.vec = <<>>) /\ (ast2.vec # <<>>) THEN {"true"}
                 ELSE IF (ast1.vec # <<>>) /\ (ast2.vec = <<>>) THEN {"false"}
                 ELSE E_ast_less_than(m_arg(ast1), m_arg(ast2))
           [] ast1.atype = ATYPE_SEQ ->
                 IF StrLess(ast1.str, ast2.str) THEN {"true"}
                 ELSE IF StrLess(ast2.str, ast1.str) THEN {"false"}
                 ELSE LET count == IF Len(ast1.vec) < Len(ast2.vec)
                                   THEN Len(ast1.vec) ELSE Len(ast2.vec)
                      IN  UNION {E_less_loop(s1.vec, s2.vec, 1, count) :
                                    s1 \in E_sorted_clone(ast1), s2 \in E_sorted_clone(ast2)}
           [] ast1.atype = ATYPE_EMPTY -> {"false"}
           [] OTHER -> {Bool(StrLess(ast1.str, ast2.str))}

\* ------------------------------------------------------------------------
\* Tokens and the token stream (EBNF.hpp)

TOK_IDENT == 0
TOK_INTEGER == 1
TOK_STRING == 2
TOK_SYMBOL == 3
TOK_COMMENT == 4
TOK_SPECIAL == 5
TOK_EOF == 6

\* Token(str, type, line = 0): m_integer is read from the text of an integer
\* token
Token(s, t, n) == [m_str |-> s, m_type |-> t, m_integer |-> n, m_line |-> 0]

\* Token(str, type, line)
AtLine(tok, line) == [tok EXCEPT !.m_line = line]

IdentToken(s) == Token(s, TOK_IDENT, 0)
StringToken(s) == Token(s, TOK_STRING, 0)
Sym(c) == Token(<<c>>, TOK_SYMBOL, 0)
IntegerToken(s, n) == Token(s, TOK_INTEGER, n)
CommentToken == Token(<<>>, TOK_COMMENT, 0)
EofToken == Token(<<>>, TOK_EOF, 0)

\* the symbols '=', ';', '|', ',', '-', '*', '[', ']', '{', '}', '(', ')'
T_assign == Sym(61)
T_semi == Sym(59)
T_bar == Sym(124)
T_comma == Sym(44)
T_minus == Sym(45)
T_star == Sym(42)
T_lbracket == Sym(91)
T_rbracket == Sym(93)
T_lbrace == Sym(123)
T_rbrace == Sym(125)
T_lparen == Sym(40)
T_rparen == Sym(41)

\* ------------------------------------------------------------------------
\* StringScanner and TokenStream::scan_tokens (EBNF.hpp).  The text is a
\* sequence of char values (char is signed: the byte 0xFF is -1), m_index a
\* 0-based position in it.

EndOfText == -1

is_digit(ch) == ch \in 48..57
is_alpha(ch) == ch \in 97..122 \/ ch \in 65..90
is_alnum(ch) == is_alpha(ch) \/ is_digit(ch)

\* strchr(" \t\n\r\f\v", ch) != NULL: strchr also finds the terminating
\* '\0' of the string it searches
is_space(ch) == ch \in {32, 9, 10, 13, 12, 11, 0}

\* strchr("=;|,-*[]{}()", ch) != NULL
is_symbol(ch) == ch \in {61, 59, 124, 44, 45, 42, 91, 93, 123, 125, 40, 41}

\* StringScanner::getch: the character read, and m_index afterwards; at the
\* end of the text -1 is returned and m_index stays
getch(text, i) ==
    IF i < Len(text) THEN [ch |-> text[i + 1], index |-> i + 1]
    ELSE [ch |-> EndOfText, index |-> i]

\* StringScanner::ungetch
ungetch(i) == IF i > 0 THEN i - 1 ELSE i

\* what a StringScanner::scan_* function gives: its return value, the text
\* it stored in ret and m_index afterwards
Scanned(ok, ret, index) == [ok |-> ok, ret |-> ret, index |-> index]

\* the loop of scan_integer and of scan_meta_identifier from m_index i: it
\* stops on the first character outside class, which it puts back, or on -1
\* (the end of the text, or the byte 0xFF, which is not put back)
RECURSIVE scan_run(_, _, _, _)
scan_run(text, i, class, ret) ==
    IF getch(text, i).ch = EndOfText THEN Scanned(TRUE, ret, getch(text, i).index)
    ELSE IF getch(text, i).ch \notin class THEN Scanned(TRUE, ret, i)
    ELSE scan_run(text, i + 1, class, ret \o <<text[i + 1]>>)

\* StringScanner::scan_integer, entered on a digit
scan_integer(text, i) == scan_run(text, i + 1, 48..57, <<text[i + 1]>>)

\* StringScanner::scan_meta_identifier, entered on a letter
scan_meta_identifier(text, i) ==
    scan_run(text, i + 1, (97..122) \cup (65..90) \cup (48..57), <<text[i + 1]>>)

\* the loop of scan_terminal_string
RECURSIVE terminal_string_loop(_, _, _, _)
terminal_string_loop(text, i, first_ch, ret) ==
    IF getch(text, i).ch = EndOfText THEN Scanned(FALSE, ret, getch(text, i).index)
    ELSE IF getch(text, i).ch = first_ch THEN Scanned(TRUE, ret, i + 1)
    ELSE terminal_string_loop(text, i + 1, first_ch, ret \o <<text[i + 1]>>)

\* StringScanner::scan_terminal_string with ISO_EBNF defined, entered on a
\* quote: the character after the quote is read and put back.  At the end of
\* the text getch has not moved m_index, so that ungetch steps back onto
\* the opening quote.
scan_terminal_string(text, i) ==
    IF getch(text, i + 1).ch = text[i + 1] THEN Scanned(FALSE, <<>>, i)
    ELSE terminal_string_loop(text, ungetch(getch(text, i + 1).index), text[i + 1], <<>>)

\* match_get(psz) at m_index i.  memcmp reads the text and its terminating
\* '\0'; where it would read past the terminator the byte before already
\* differs from psz, so the outcome is a mismatch.
match(text, i, psz) ==
    i + Len(psz) <= Len(text) /\ SubSeq(text, i + 1, i + Len(psz)) = psz

\* the loop of scan_comment
RECURSIVE comment_loop(_, _, _)
comment_loop(text, i, ret) ==
    IF match(text, i, <<42, 41>>) THEN Scanned(TRUE, ret, i + 2)
    ELSE IF getch(text, i).ch = EndOfText THEN Scanned(FALSE, ret, getch(text, i).index)
    ELSE comment_loop(text, i + 1, ret \o <<text[i + 1]>>)

\* StringScanner::scan_comment, entered on "(*"
scan_comment(text, i) == comment_loop(text, i + 2, <<>>)

\* the loop of scan_special
RECURSIVE special_loop(_, _, _)
special_loop(text, i, ret) ==
    IF getch(text, i).ch = EndOfText THEN Scanned(FALSE, ret, getch(text, i).index)
    ELSE IF getch(text, i).ch = 63 THEN Scanned(TRUE, ret, i + 1)
    ELSE special_loop(text, i + 1, ret \o <<text[i + 1]>>)

\* StringScanner::scan_special, entered on '?'
scan_special(text, i) == special_loop(text, i + 1, <<>>)

\* StringScanner::index_to_line: 1 + the line feeds before index
index_to_line(text, index) ==
    1 + Cardinality({k \in 1..Len(text) : k <= index /\ text[k] = 10})

\* an entry of m_errors: scan_error(msg, line); ch is the character appended
\* to the message of an invalid character, 0 otherwise
ScanError(msg, ch, line) == [m_text |-> msg, ch |-> ch, m_line |-> line]

\* what scan_tokens returns, with m_tokens, m_errors and the scanner's
\* m_index afterwards.  ret is "true", "false", or "diverges" for a scan
\* whose loop never ends.
ScanResult(ret, toks, errs, index) ==
    [ret |-> ret, tokens |-> toks, errors |-> errs, index |-> index]

\* the do-while of scan_tokens that skips spaces: the getch that read the
\* first character that is not a space
RECURSIVE skip_spaces(_, _)
skip_spaces(text, i) ==
    IF is_space(getch(text, i).ch) THEN skip_spaces(text, i + 1)
    ELSE getch(text, i)

\* the body of the loop of scan_tokens after ch has been read (index is
\* m_index after that read): the token pushed and m_index afterwards
\* ("token"), the EndOfFile token ("eof"), or the error reported ("error")
Lexeme(kind, tok, index, err) == [kind |-> kind, tok |-> tok, index |-> index, err |-> err]

\* (m_integer = (int)std::strtol(str): the low 32 bits of the value where
\* long has 64 bits; the texts scanned hold digits that every int holds)
scanned_lexeme(r, type, line, msg) ==
    IF r.ok THEN Lexeme("token", AtLine(Token(r.ret, type, IF type = TOK_INTEGER THEN AsInt(Wrapped(r.ret)) ELSE 0), line), r.index, <<>>)
    ELSE Lexeme("error", EofToken, r.index, <<ScanError(msg, 0, line)>>)

symbol_lexeme(text, ch, index) ==
    IF ch = 63
    THEN scanned_lexeme(scan_special(text, ungetch(index)), TOK_SPECIAL,
                        index_to_line(text, ungetch(index)), "no end of special")
    ELSE IF is_symbol(ch)
    THEN Lexeme("token", AtLine(Sym(ch), index_to_line(text, index)), index, <<>>)
    ELSE Lexeme("error", EofToken, index,
                <<ScanError("invalid character: ", ch, index_to_line(text, index))>>)

scan_lexeme(text, ch, index) ==
    IF is_digit(ch)
    THEN scanned_lexeme(scan_integer(text, ungetch(index)), TOK_INTEGER,
                        index_to_line(text, ungetch(index)), "")
    ELSE IF ch = 34 \/ ch = 39
    THEN scanned_lexeme(scan_terminal_string(text, ungetch(index)), TOK_STRING,
                        index_to_line(text, ungetch(index)), "terminal string is invalid")
    ELSE IF is_alpha(ch)
    THEN scanned_lexeme(scan_meta_identifier(text, ungetch(index)), TOK_IDENT,
                        index_to_line(text, ungetch(index)), "")
    ELSE IF ch = EndOfText
    THEN Lexeme("eof", AtLine(EofToken, index_to_line(text, index)), index, <<>>)
    ELSE IF ch = 40 /\ getch(text, index).ch = 42
    THEN scanned_lexeme(scan_comment(text, ungetch(ungetch(getch(text, index).index))),
                        TOK_COMMENT,
                        index_to_line(text, ungetch(ungetch(getch(text, index).index))),
                        "no end of comment")
    ELSE IF ch = 40
    THEN symbol_lexeme(text, 40, ungetch(getch(text, index).index))
    ELSE symbol_lexeme(text, ch, index)

\* the loop of scan_tokens from m_index i with m_tokens = toks; at is where
\* the character of this round was read.  A round that pushes a token and
\* leaves m_index where the character was read is repeated for ever, with
\* m_tokens growing: a '(' that is the last character of the text is pushed
\* as a symbol with m_index back on it (at the end getch did not move, and
\* ungetch did).
RECURSIVE scan_loop(_, _, _)
scan_pushed(text, toks, at, lex) ==
    IF lex.kind = "error" THEN ScanResult("false", toks, lex.err, lex.index)
    ELSE IF lex.kind = "eof" THEN ScanResult("true", toks \o <<lex.tok>>, <<>>, lex.index)
    ELSE IF lex.index <= at THEN ScanResult("diverges", toks \o <<lex.tok>>, <<>>, lex.index)
    ELSE scan_loop(text, lex.index, toks \o <<lex.tok>>)

scan_loop(text, i, toks) ==
    scan_pushed(text, toks, skip_spaces(text, i).index - 1,
                scan_lexeme(text, skip_spaces(text, i).ch, skip_spaces(text, i).index))

\* TokenStream::scan_tokens on a new stream over text
scan_tokens(text) == scan_loop(text, 0, <<>>)


\* TokenStream::delete_comments
delete_comments(toks) == SelectSeq(toks, LAMBDA t : t.m_type # TOK_COMMENT)

\* TokenStream::join_words, from index i (0-based) on: an identifier
\* swallows the identifier after it, a space between the two names
RECURSIVE join_words_from(_, _)

\* join_words without the --i after the erase: the token after the one
\* swallowed is skipped
join_words_from_skipping(toks, i) ==
    IF i + 1 >= Len(toks) THEN toks
    ELSE IF toks[i + 1].m_type = TOK_IDENT /\ toks[i + 2].m_type = TOK_IDENT
         THEN join_words_from(
                  [k \in 1..(Len(toks) - 1) |->
                      IF k < i + 1 THEN toks[k]
                      ELSE IF k = i + 1
                           THEN [toks[i + 1] EXCEPT
                                    !.m_str = toks[i + 1].m_str \o <<32>> \o toks[i + 2].m_str]
                           ELSE toks[k + 1]],
                  i + 1)
         ELSE join_words_from(toks, i + 1)

join_words_from(toks, i) ==
    IF i + 1 >= Len(toks) THEN toks
    ELSE IF toks[i + 1].m_type = TOK_IDENT /\ toks[i + 2].m_type = TOK_IDENT
         THEN join_words_from(
                  [k \in 1..(Len(toks) - 1) |->
                      IF k < i + 1 THEN toks[k]
                      ELSE IF k = i + 1
                           THEN [toks[i + 1] EXCEPT
                                    !.m_str = toks[i + 1].m_str \o <<32>> \o toks[i + 2].m_str]
                           ELSE toks[k + 1]],
                  i)
         ELSE join_words_from(toks, i + 1)

join_words(toks) == join_words_from(toks, 0)

\* next() that goes back to the first token when it is on the last one
next_rewinding(toks, i) == IF i + 1 < Len(toks) THEN i + 1 ELSE 0

\* TokenStream::next: the cursor never moves past the last token
next(toks, i) == IF i + 1 < Len(toks) THEN i + 1 ELSE i

\* type() and str() of the token under the cursor
type(toks, i) == toks[i + 1].m_type
str(toks, i) == toks[i + 1].m_str
integer(toks, i) == toks[i + 1].m_integer
IsSym(toks, i, t) == type(toks, i) = TOK_SYMBOL /\ str(toks, i) = t.m_str

\* ------------------------------------------------------------------------
\* EBNF::Parser (EBNF.hpp).  A visit_* operator takes the token list and the
\* cursor and gives the node built (NULL on failure), the cursor afterwards
\* and the parse errors reported.

\* EBNF::IdentAst keeps the name as written
E_IdentAst(name) == [atype |-> ATYPE_IDENT, str |-> name, num |-> 0, vec |-> <<>>]

\* alive is BaseAst::alive_count() when the visit returns, less its value
\* when the visit was entered: the nodes made and not deleted
Visit(ast, pos, errs, alive) == [ast |-> ast, pos |-> pos, errs |-> errs, alive |-> alive]

RECURSIVE visit_definitions_list(_, _)
RECURSIVE definitions_list_loop(_, _, _, _, _)
RECURSIVE definitions_list_push(_, _, _, _, _)
RECURSIVE visit_single_definition(_, _)
RECURSIVE single_definition_loop(_, _, _, _, _)
RECURSIVE single_definition_push(_, _, _, _, _)
RECURSIVE visit_term(_, _)
RECURSIVE visit_exception(_, _)
RECURSIVE visit_factor(_, _)
RECURSIVE visit_primary(_, _)
RECURSIVE visit_sequence(_, _, _)

\* the brackets, the tag and the messages of visit_optional_sequence,
\* visit_repeated_sequence and visit_grouped_sequence
Brackets ==
    {[open |-> T_lbracket, close |-> T_rbracket, tag |-> S_optional,
      expected |-> "expected '['", unmatched |-> "']' unmatched"],
     [open |-> T_lbrace, close |-> T_rbrace, tag |-> S_repeated,
      expected |-> "expected '{'", unmatched |-> "'}' unmatched"],
     [open |-> T_lparen, close |-> T_rparen, tag |-> S_group,
      expected |-> "expected '('", unmatched |-> "')' unmatched"]}

\* the closing bracket after the definitions list r; without it the list
\* is deleted
sequence_close(toks, b, r) ==
    IF r.ast = NULL THEN r
    ELSE IF ~IsSym(toks, r.pos, b.close)
         THEN Visit(NULL, r.pos, r.errs \o <<b.unmatched>>, r.alive - Count(r.ast))
         ELSE Visit(UnaryAst(b.tag, r.ast), next(toks, r.pos), r.errs, r.alive + 1)

\* visit_optional_sequence, visit_repeated_sequence, visit_grouped_sequence:
\* the same code for the bracket pair b
visit_sequence(toks, i, b) ==
    IF ~IsSym(toks, i, b.open) THEN Visit(NULL, i, <<b.expected>>, 0)
    ELSE sequence_close(toks, b, visit_definitions_list(toks, next(toks, i)))

\* visit_primary without the empty production
visit_primary_without_empty(toks, i) ==
    CASE type(toks, i) = TOK_STRING -> Visit(StringAst(str(toks, i)), next(toks, i), <<>>, 1)
      [] type(toks, i) = TOK_IDENT -> Visit(E_IdentAst(str(toks, i)), next(toks, i), <<>>, 1)
      [] type(toks, i) = TOK_SPECIAL -> Visit(SpecialAst(str(toks, i)), next(toks, i), <<>>, 1)
      [] type(toks, i) = TOK_SYMBOL ->
            IF \E b \in Brackets : IsSym(toks, i, b.open)
            THEN visit_sequence(toks, i, CHOOSE b \in Brackets : IsSym(toks, i, b.open))
            ELSE Visit(NULL, i, <<>>, 0)
      [] OTHER -> Visit(NULL, i, <<>>, 0)

visit_primary(toks, i) ==
    CASE type(toks, i) = TOK_STRING -> Visit(StringAst(str(toks, i)), next(toks, i), <<>>, 1)
      [] type(toks, i) = TOK_IDENT -> Visit(E_IdentAst(str(toks, i)), next(toks, i), <<>>, 1)
      [] type(toks, i) = TOK_SPECIAL -> Visit(SpecialAst(str(toks, i)), next(toks, i), <<>>, 1)
      [] type(toks, i) = TOK_SYMBOL ->
            IF \E b \in Brackets : IsSym(toks, i, b.open)
            THEN visit_sequence(toks, i, CHOOSE b \in Brackets : IsSym(toks, i, b.open))
            ELSE IF \E t \in {T_semi, T_bar, T_comma, T_rparen, T_rbrace, T_rbracket} :
                       IsSym(toks, i, t)
                 THEN Visit(EmptyAst, i, <<>>, 1)
                 ELSE Visit(NULL, i, <<>>, 0)
      [] OTHER -> Visit(NULL, i, <<>>, 0)

\* the end of visit_factor after "integer *": i_ast has been made, prim is
\* the primary visited; without a primary i_ast is deleted
factor_times(inte, prim) ==
    IF prim.ast # NULL
    THEN Visit(BinaryAst(S_star, IntegerAst(inte), prim.ast), prim.pos, prim.errs,
               1 + prim.alive + 1)
    ELSE Visit(NULL, prim.pos, prim.errs \o <<"expected '*'">>,
               1 + prim.alive - Count(IntegerAst(inte)))

\* visit_factor taking an integer that no '*' follows for a primary
visit_factor_with_bare_integer(toks, i) ==
    IF type(toks, i) = TOK_INTEGER /\ ~IsSym(toks, next(toks, i), T_star)
    THEN Visit(IntegerAst(integer(toks, i)), next(toks, i), <<>>, 1)
    ELSE IF type(toks, i) = TOK_INTEGER
         THEN factor_times(integer(toks, i),
                           visit_primary(toks, next(toks, next(toks, i))))
         ELSE visit_primary(toks, i)

visit_factor(toks, i) ==
    IF type(toks, i) = TOK_INTEGER /\ ~IsSym(toks, next(toks, i), T_star)
    THEN Visit(NULL, next(toks, i), <<"expected '*'">>, 0)
    ELSE IF type(toks, i) = TOK_INTEGER
         THEN factor_times(integer(toks, i),
                           visit_primary(toks, next(toks, next(toks, i))))
         ELSE visit_primary(toks, i)

visit_exception(toks, i) == visit_factor(toks, i)

\* the end of visit_term after "factor -": ex is the exception visited;
\* without it the factor is deleted
term_except(fact, ex) ==
    IF ex.ast # NULL
    THEN Visit(BinaryAst(S_minus, fact.ast, ex.ast), ex.pos, fact.errs \o ex.errs,
               fact.alive + ex.alive + 1)
    ELSE Visit(NULL, ex.pos, fact.errs \o ex.errs,
               fact.alive + ex.alive - Count(fact.ast))

\* visit_term after its factor
term_after(toks, fact) ==
    IF fact.ast = NULL THEN fact
    ELSE IF IsSym(toks, fact.pos, T_minus)
         THEN term_except(fact, visit_exception(toks, next(toks, fact.pos)))
         ELSE fact

visit_term(toks, i) == term_after(toks, visit_factor(toks, i))

\* the nodes a loop of the parser holds in its SeqAst seq, whose elements
\* are vec: none before the first element is there (seq is made after it)
Held(tag, vec) == IF vec = <<>> THEN 0 ELSE Count(SeqAst(tag, vec))

\* the SeqAst of a loop as the element ast is pushed: made with the first
NewSeq(vec) == IF vec = <<>> THEN 1 ELSE 0

\* the for (;;) of visit_single_definition: the term at cursor i is visited
\* and pushed, and a ',' after it starts the next round; alive counts the
\* nodes made and not deleted so far.  A term that fails ends the loop, seq
\* being deleted.
single_definition_loop(toks, i, vec, errs, alive) ==
    single_definition_push(toks, vec, errs, alive, visit_term(toks, i))

single_definition_push(toks, vec, errs, alive, term) ==
    IF term.ast = NULL
    THEN Visit(NULL, term.pos, errs \o term.errs, alive + term.alive - Held(S_terms, vec))
    ELSE IF IsSym(toks, term.pos, T_comma)
         THEN single_definition_loop(toks, next(toks, term.pos), Append(vec, term.ast),
                                     errs \o term.errs, alive + term.alive + NewSeq(vec))
         ELSE Visit(SeqAst(S_terms, Append(vec, term.ast)), term.pos, errs \o term.errs,
                    alive + term.alive + NewSeq(vec))

visit_single_definition(toks, i) == single_definition_loop(toks, i, <<>>, <<>>, 0)

\* the for (;;) of visit_definitions_list
definitions_list_loop(toks, i, vec, errs, alive) ==
    definitions_list_push(toks, vec, errs, alive, visit_single_definition(toks, i))

definitions_list_push(toks, vec, errs, alive, ast) ==
    IF ast.ast = NULL
    THEN Visit(NULL, ast.pos, errs \o ast.errs, alive + ast.alive - Held(S_defs, vec))
    ELSE IF IsSym(toks, ast.pos, T_bar)
         THEN definitions_list_loop(toks, next(toks, ast.pos), Append(vec, ast.ast),
                                    errs \o ast.errs, alive + ast.alive + NewSeq(vec))
         ELSE Visit(SeqAst(S_defs, Append(vec, ast.ast)), ast.pos, errs \o ast.errs,
                    alive + ast.alive + NewSeq(vec))

visit_definitions_list(toks, i) == definitions_list_loop(toks, i, <<>>, <<>>, 0)

\* the end of visit_syntax_rule: id (made) is the name, def_list the list
\* visited; on a failure id is deleted, and def_list if there is one
syntax_rule_end(toks, id, def_list) ==
    IF def_list.ast = NULL
    THEN Visit(NULL, def_list.pos, def_list.errs, 1 + def_list.alive - Count(id))
    ELSE IF ~IsSym(toks, def_list.pos, T_semi)
         THEN Visit(NULL, def_list.pos, def_list.errs \o <<"expected ';' or ','">>,
                    1 + def_list.alive - Count(id) - Count(def_list.ast))
         ELSE Visit(BinaryAst(S_assign, id, def_list.ast),
                    next(toks, def_list.pos), def_list.errs, 1 + def_list.alive + 1)

visit_syntax_rule(toks, i) ==
    IF type(toks, i) # TOK_IDENT THEN Visit(NULL, i, <<"expected TOK_IDENT">>, 0)
    ELSE IF ~IsSym(toks, next(toks, i), T_assign)
         THEN Visit(NULL, next(toks, i), <<"expected '='">>,
                    1 - Count(E_IdentAst(str(toks, i))))
         ELSE syntax_rule_end(toks, E_IdentAst(str(toks, i)),
                              visit_definitions_list(toks, next(toks, next(toks, i))))

\* the for (;;) of visit_syntax: the rule at cursor i is visited and pushed,
\* and the loop ends on the EndOfFile token
RECURSIVE syntax_loop(_, _, _, _, _)
RECURSIVE syntax_push(_, _, _, _, _)
syntax_loop(toks, i, vec, errs, alive) ==
    syntax_push(toks, vec, errs, alive, visit_syntax_rule(toks, i))

\* a visit_syntax that gives the rules visited so far when a later rule fails
syntax_push_keeps_rules(toks, vec, errs, alive, rule) ==
    IF rule.ast = NULL
    THEN Visit(IF vec = <<>> THEN NULL ELSE SeqAst(S_rules, vec), rule.pos,
               errs \o rule.errs, alive + rule.alive)
    ELSE IF type(toks, rule.pos) = TOK_EOF
         THEN Visit(SeqAst(S_rules, Append(vec, rule.ast)), rule.pos, errs \o rule.errs,
                    alive + rule.alive + NewSeq(vec))
         ELSE syntax_loop(toks, rule.pos, Append(vec, rule.ast), errs \o rule.errs,
                          alive + rule.alive + NewSeq(vec))

syntax_push(toks, vec, errs, alive, rule) ==
    IF rule.ast = NULL
    THEN Visit(NULL, rule.pos, errs \o rule.errs, alive + rule.alive - Held(S_rules, vec))
    ELSE IF type(toks, rule.pos) = TOK_EOF
         THEN Visit(SeqAst(S_rules, Append(vec, rule.ast)), rule.pos, errs \o rule.errs,
                    alive + rule.alive + NewSeq(vec))
         ELSE syntax_loop(toks, rule.pos, Append(vec, rule.ast), errs \o rule.errs,
                          alive + rule.alive + NewSeq(vec))

visit_syntax(toks, i) == syntax_loop(toks, i, <<>>, <<>>, 0)

\* the end of Parser::parse: fixed is the stream after the fix-up and v the
\* syntax visited, which is deleted unless the cursor is on EndOfFile
parse_end(fixed, v) ==
    IF v.ast # NULL /\ type(fixed, v.pos) = TOK_EOF
    THEN [ret |-> TRUE, ast |-> v.ast, tokens |-> fixed, index |-> v.pos, errs |-> v.errs,
          alive |-> v.alive]
    ELSE [ret |-> FALSE, ast |-> NULL, tokens |-> fixed, index |-> v.pos, errs |-> v.errs,
          alive |-> v.alive - Count(v.ast)]

\* Parser::parse on a stream holding toks with the cursor at i: the stream
\* after the fix-up, the result, the tree kept in m_ast, the cursor, and the
\* nodes made and not deleted by the visit (the tree that m_ast held before
\* is deleted first).
\* (A stream that holds comments only is emptied by delete_comments, and
\* join_words then reads past its end; a scanned stream ends with the
\* EndOfFile token, so it never gets empty.)
ParseOf(toks, i) ==
    IF Len(toks) = 0
    THEN [ret |-> FALSE, ast |-> NULL, tokens |-> toks, index |-> i, errs |-> <<>>,
          alive |-> 0]
    ELSE parse_end(join_words(delete_comments(toks)),
                   visit_syntax(join_words(delete_comments(toks)), i))

\* The parser that builds bnf_ast nodes: the same grammar, a rule being
\* BinaryAst("rule", IdentAst, SeqAst("expr")) and an identifier a
\* bnf_ast::IdentAst
RECURSIVE to_bnf_ast(_)
to_bnf_ast(n) ==
    CASE n.atype = ATYPE_IDENT -> IdentAst(n.str)
      [] n.atype = ATYPE_BINARY ->
            BinaryAst(IF n.str = S_assign THEN S_rule ELSE n.str,
                      to_bnf_ast(m_left(n)), to_bnf_ast(m_right(n)))
      [] n.atype = ATYPE_UNARY -> UnaryAst(n.str, to_bnf_ast(m_arg(n)))
      [] n.atype = ATYPE_SEQ ->
            SeqAst(IF n.str = S_defs THEN S_expr ELSE n.str,
                   [k \in 1..Len(n.vec) |-> to_bnf_ast(n.vec[k])])
      [] OTHER -> n

\* do_parse of the tests: the rule-set parsed from a token list, or NULL
do_parse(toks) ==
    LET r == ParseOf(toks, 0)
    IN  IF r.ret THEN to_bnf_ast(r.ast) ELSE NULL

\* ------------------------------------------------------------------------
\* Inputs of the parser: token lists as a successful scan leaves them, the
\* EndOfFile token last and nowhere else.  A list is a concatenation of at
\* most MaxChunks chunks, a chunk being one token or one whole rule.

MaxChunks == 3
MaxCalls == 2

Chunks ==
    {<<IdentToken(S_a)>>, <<T_assign>>, <<T_semi>>, <<StringToken(S_x)>>, <<T_bar>>,
     <<T_rparen>>, <<CommentToken>>,
     <<T_comma>>, <<T_rbrace>>, <<T_rbracket>>, <<IntegerToken(S_2, 2)>>, <<T_star>>,
     <<IdentToken(S_a), T_assign, StringToken(S_x), T_semi>>,
     <<IdentToken(S_b), T_assign, T_semi>>,
     <<IdentToken(S_a), T_assign, IdentToken(S_b), T_bar, StringToken(S_x), T_semi>>,
     <<IdentToken(S_a), T_assign, IntegerToken(S_2, 2), T_star,
       T_lparen, StringToken(S_x), T_rparen, T_semi>>}

RECURSIVE ChunkLists(_)
ChunkLists(n) ==
    IF n = 0 THEN {<<>>}
    ELSE ChunkLists(n - 1) \cup {c \o l : c \in Chunks, l \in ChunkLists(n - 1)}

\* the tokens as scanned from a text that has one token on each line
OnePerLine(toks) == [k \in 1..Len(toks) |-> AtLine(toks[k], k)]

TokenLists == {OnePerLine(l \o <<EofToken>>) : l \in ChunkLists(MaxChunks)}

\* ------------------------------------------------------------------------
\* Inputs of the comparison functions: one-rule grammars  a = body ;  whose
\* body is a concatenation of at most MaxTerms factors or an alternation of
\* at most MaxAlts terms

MaxTerms == 2
MaxAlts == 2

T_x == IdentToken(S_x)
T_y == IdentToken(S_y)

\* x   y   [x]   {y}
FactorTexts ==
    {<<T_x>>, <<T_y>>, <<T_lbracket, T_x, T_rbracket>>, <<T_lbrace, T_y, T_rbrace>>}

\* a factor, or  {y} - b  or  [x] - c
TermTexts ==
    FactorTexts
    \cup {<<T_lbrace, T_y, T_rbrace, T_minus, IdentToken(S_b)>>,
          <<T_lbracket, T_x, T_rbracket, T_minus, IdentToken(S_c)>>}

\* the texts made of 1..n texts of S with sep between them
RECURSIVE Joined(_, _, _)
Joined(S, sep, n) ==
    IF n <= 1 THEN S
    ELSE Joined(S, sep, n - 1)
         \cup {t \o <<sep>> \o l : t \in S, l \in Joined(S, sep, n - 1)}

RuleText(name, body) == <<IdentToken(name), T_assign>> \o body \o <<T_semi>>

BodyTexts == Joined(FactorTexts, T_comma, MaxTerms) \cup Joined(TermTexts, T_bar, MaxAlts)

CompareInputs == {RuleText(S_a, b) \o <<EofToken>> : b \in BodyTexts}

\* ------------------------------------------------------------------------
\* Relations between two trees that the properties speak of

\* t2 is t1 with the alternatives of its "expr" lists in another order
RECURSIVE AlternativesReordered(_, _)
AlternativesReordered(t1, t2) ==
    /\ t1.atype = t2.atype /\ t1.str = t2.str /\ t1.num = t2.num
    /\ Len(t1.vec) = Len(t2.vec)
    /\ IF get_expr(t1)
       THEN \E f \in Permutations(1..Len(t1.vec)) :
               \A i \in 1..Len(t1.vec) : AlternativesReordered(t1.vec[i], t2.vec[f[i]])
       ELSE \A i \in 1..Len(t1.vec) : AlternativesReordered(t1.vec[i], t2.vec[i])

\* t2 is t1 with two distinct, non-empty factors of one "terms" list exchanged
RECURSIVE FactorsExchanged(_, _)
FactorsExchanged(t1, t2) ==
    /\ t1.atype = t2.atype /\ t1.str = t2.str /\ t1.num = t2.num
    /\ Len(t1.vec) = Len(t2.vec)
    /\ \/ /\ get_terms(t1)
          /\ \E i, j \in 1..Len(t1.vec) :
                /\ i < j
                /\ t1.vec[i] # t1.vec[j]
                /\ ~empty(t1.vec[i]) /\ ~empty(t1.vec[j])
                /\ t2.vec = [t1.vec EXCEPT ![i] = t1.vec[j], ![j] = t1.vec[i]]
       \/ \E k \in 1..Len(t1.vec) :
             /\ FactorsExchanged(t1.vec[k], t2.vec[k])
             /\ \A m \in 1..Len(t1.vec) : m # k => t1.vec[m] = t2.vec[m]

\* ------------------------------------------------------------------------
\* State

VARIABLES
    m_tokens,       \* Parser::m_stream.m_tokens
    m_index,        \* Parser::m_stream.m_index
    m_ast,          \* Parser::m_ast
    m_errors,       \* Parser::m_stream.m_errors
    parse_ret,      \* what the last call of Parser::parse returned, or "none"
    parse_calls,    \* how often Parser::parse was called
    visit_fn,       \* the visit_* function called on the parser, or "none"
    visit_at,       \* the cursor when it was called
    visit_ast,      \* the node it returned
    input1,         \* EbnfCompareTest: entry->input1 as scanned
    input2,         \* EbnfCompareTest: entry->input2 as scanned
    seq1,           \* EbnfCompareTest: seq1
    seq2,           \* EbnfCompareTest: seq2
    cmp,            \* the results of the comparison calls made on seq1 and seq2
    node1,          \* three nodes handed to the comparison functions
    node2,
    node3,
    rel,            \* the results of ast_less_than and ast_equal on the nodes
    node_equal,     \* the result of ast_equal(node1, node2), or "none"
    tree,           \* a parsed tree
    clone1,         \* tree->sorted_clone()
    clone2,         \* clone1->sorted_clone()
    rules,          \* the rule list edited by the join and the insertion
    name,           \* the name argument (a reference) of ast_add_rule
    rule_expr,      \* the rule_expr argument of the last ast_add_rule
    ndebug,         \* whether the build leaves assertions out
    before,         \* the rule list as it was before the last operation
    status,         \* how the last operation on the rule list ended
    join_ret,       \* what the last ast_join_joinable_rules returned
    ops,            \* the number of operations done on the rule list
    source,         \* the tokens the rule list was parsed from
    scanner_str,    \* StringScanner::m_str
    scanner_index,  \* StringScanner::m_index
    stream_tokens,  \* TokenStream::m_tokens of the stream being scanned
    stream_errors,  \* TokenStream::m_errors of the stream being scanned
    scan_ret,       \* what scan_tokens returned, or "none"
    test_program,   \* the test program that counts its nodes, or "none"
    test_input1,    \* the tokens of its input (of its first input)
    test_input2,    \* the tokens of its second input
    test_on,        \* what is compared: the rule lists, a rule of each, or its body
    owned1,         \* Parser::m_ast, or seq1 of just_do_it
    owned2,         \* seq2 of just_do_it
    alive_count,    \* BaseAst::alive_count()
    alive_before,   \* BaseAst::alive_count() when the last call was entered
    test_pc,        \* where the test program is
    test_ret,       \* what the last call returned
    order_ast1,     \* the first Seq node handed to a comparison function
    order_ast2,     \* the second Seq node
    order_fn,       \* the comparison function called on them, or "none"
    order_ret,      \* what it returned
    order_clone1,   \* seq1 of the call, the canonical clone of the first node
    order_clone2,   \* seq2 of the call
    order_used,     \* the indexes the call used on seq1->m_vec and seq2->m_vec
    cursor_tokens,  \* TokenStream::m_tokens of a stream whose cursor is moved
    cursor_index,   \* TokenStream::m_index of that stream
    cursor_call,    \* the last member called on it, or "none"
    cursor_arg,     \* the argument of that call
    cursor_ret,     \* what it returned
    cursor_before,  \* m_index when it was called
    cursor_calls,   \* the number of calls made
    run_tokens,     \* Parser::m_stream.m_tokens of a parser run step by step
    run_index,      \* Parser::m_stream.m_index of that parser
    run_stack,      \* the productions entered and not yet left, innermost last
    run_ret,        \* whether the production left last returned a node
    run_result,     \* what Parser::parse returned, or how the run ended
    given_name,     \* the name handed to name_increment first
    fresh_name,     \* the name after the calls of name_increment made so far
    fresh_before,   \* the name before the last call
    fresh_seen,     \* the names before each of the calls
    libc            \* how atoi of the C library treats a value no int can hold

parserVars == <<m_tokens, m_index, m_ast, m_errors, parse_ret, parse_calls,
                visit_fn, visit_at, visit_ast>>
compareVars == <<input1, input2, seq1, seq2, cmp>>
nodeVars == <<node1, node2, node3, rel, node_equal>>
canonVars == <<tree, clone1, clone2>>
ruleVars == <<rules, name, rule_expr, ndebug, before, status, join_ret, ops, source>>

scanVars == <<scanner_str, scanner_index, stream_tokens, stream_errors, scan_ret>>

aliveVars == <<test_program, test_input1, test_input2, test_on, owned1, owned2,
               alive_count, alive_before, test_pc, test_ret>>

orderVars == <<order_ast1, order_ast2, order_fn, order_ret, order_clone1, order_clone2,
               order_used>>

cursorVars == <<cursor_tokens, cursor_index, cursor_call, cursor_arg, cursor_ret,
                cursor_before, cursor_calls>>

runVars == <<run_tokens, run_index, run_stack, run_ret, run_result>>

nameVars == <<given_name, fresh_name, fresh_before, fresh_seen, libc>>

vars == <<parserVars, compareVars, nodeVars, canonVars, ruleVars, scanVars, aliveVars,
          orderVars, cursorVars, runVars, nameVars>>

\* no two nodes under comparison
NoOrder ==
    /\ order_ast1 = NULL
    /\ order_ast2 = NULL
    /\ order_fn = "none"
    /\ order_ret = "none"
    /\ order_clone1 = NULL
    /\ order_clone2 = NULL
    /\ order_used = {}

\* no stream whose cursor is moved
NoCursor ==
    /\ cursor_tokens = <<>>
    /\ cursor_index = 0
    /\ cursor_call = "none"
    /\ cursor_arg = 0
    /\ cursor_ret = "none"
    /\ cursor_before = 0
    /\ cursor_calls = 0

\* no parser run step by step
NoRun ==
    /\ run_tokens = <<>>
    /\ run_index = 0
    /\ run_stack = <<>>
    /\ run_ret = "none"
    /\ run_result = "none"

\* no name being incremented
NoNames ==
    /\ given_name = <<>>
    /\ fresh_name = <<>>
    /\ fresh_before = <<>>
    /\ fresh_seen = {}
    /\ libc = "none"

\* no test program counting its nodes
NoAlive ==
    /\ test_program = "none"
    /\ test_input1 = <<>>
    /\ test_input2 = <<>>
    /\ test_on = "none"
    /\ owned1 = NULL
    /\ owned2 = NULL
    /\ alive_count = 0
    /\ alive_before = 0
    /\ test_pc = "none"
    /\ test_ret = "none"

\* no parser in use
NoParser ==
    /\ m_tokens = <<>>
    /\ m_index = 0
    /\ m_ast = NULL
    /\ m_errors = <<>>
    /\ parse_ret = "none"
    /\ parse_calls = 0
    /\ visit_fn = "none"
    /\ visit_at = 0
    /\ visit_ast = NULL

\* no comparison in progress
NoCompare ==
    /\ input1 = <<>>
    /\ input2 = <<>>
    /\ seq1 = NULL
    /\ seq2 = NULL
    /\ cmp = <<>>

\* no nodes under comparison
NoNodes ==
    /\ node1 = NULL
    /\ node2 = NULL
    /\ node3 = NULL
    /\ rel = <<>>
    /\ node_equal = "none"

\* no tree being cloned
NoCanon ==
    /\ tree = NULL
    /\ clone1 = NULL
    /\ clone2 = NULL

\* no rule list being edited
NoRules ==
    /\ rules = NULL
    /\ name = <<>>
    /\ rule_expr = NULL
    /\ ndebug = FALSE
    /\ before = NULL
    /\ status = "none"
    /\ join_ret = FALSE
    /\ ops = 0
    /\ source = <<>>

\* no text being scanned
NoScan ==
    /\ scanner_str = <<>>
    /\ scanner_index = 0
    /\ stream_tokens = <<>>
    /\ stream_errors = <<>>
    /\ scan_ret = "none"

\* ------------------------------------------------------------------------
\* Parser::parse

\* Parser parser(stream), stream just scanned
InitParser ==
    /\ m_tokens \in TokenLists
    /\ m_index = 0
    /\ m_ast = NULL
    /\ m_errors = <<>>
    /\ parse_ret = "none"
    /\ parse_calls = 0
    /\ visit_fn = "none"
    /\ visit_at = 0
    /\ visit_ast = NULL
    /\ NoCompare /\ NoNodes /\ NoCanon /\ NoRules /\ NoScan /\ NoAlive
    /\ NoOrder /\ NoCursor /\ NoRun /\ NoNames

\* parser.parse()
Parse ==
    /\ m_tokens # <<>> \/ parse_calls > 0
    /\ parse_calls < MaxCalls
    /\ visit_fn = "none"
    /\ LET r == ParseOf(m_tokens, m_index)
       IN  /\ m_tokens' = r.tokens
           /\ m_index' = r.index
           /\ m_ast' = r.ast
           /\ m_errors' = m_errors \o r.errs
           /\ parse_ret' = Bool(r.ret)
    /\ parse_calls' = parse_calls + 1
    /\ UNCHANGED <<visit_fn, visit_at, visit_ast>>
    /\ UNCHANGED <<compareVars, nodeVars, canonVars, ruleVars, scanVars, aliveVars, orderVars, cursorVars, runVars, nameVars>>

\* a visit_* function called on the new parser, v being what it gives
Visited(fn, v) ==
    /\ parse_calls = 0
    /\ visit_fn = "none"
    /\ visit_fn' = fn
    /\ visit_at' = m_index
    /\ visit_ast' = v.ast
    /\ m_index' = v.pos
    /\ m_errors' = m_errors \o v.errs
    /\ UNCHANGED <<m_tokens, m_ast, parse_ret, parse_calls>>
    /\ UNCHANGED <<compareVars, nodeVars, canonVars, ruleVars, scanVars, aliveVars, orderVars, cursorVars, runVars, nameVars>>

\* parser.visit_primary()
VisitPrimary == Visited("primary", visit_primary(m_tokens, m_index))

\* parser.visit_factor()
VisitFactor == Visited("factor", visit_factor(m_tokens, m_index))

NextParse == Parse \/ VisitPrimary \/ VisitFactor

SpecParse == InitParser /\ [][NextParse]_vars

\* ------------------------------------------------------------------------
\* The comparison of two parsed rule-sets (EbnfCompareTest.cpp, just_do_it):
\* both inputs are parsed, then the comparison functions are called on the
\* two trees.  cmp lists the calls made so far, each with its result.

InitCompare ==
    /\ input1 \in CompareInputs
    /\ input2 \in CompareInputs
    /\ seq1 = NULL
    /\ seq2 = NULL
    /\ cmp = <<>>
    /\ NoParser /\ NoNodes /\ NoCanon /\ NoRules /\ NoScan /\ NoAlive
    /\ NoOrder /\ NoCursor /\ NoRun /\ NoNames

\* seq1 = do_parse(entry->input1); seq2 = do_parse(entry->input2);
DoParse ==
    /\ input1 # <<>>
    /\ seq1 = NULL /\ seq2 = NULL
    /\ seq1' = do_parse(input1)
    /\ seq2' = do_parse(input2)
    /\ UNCHANGED <<input1, input2, cmp>>
    /\ UNCHANGED <<parserVars, nodeVars, canonVars, ruleVars, scanVars, aliveVars, orderVars, cursorVars, runVars, nameVars>>

Called(f) == \E k \in 1..Len(cmp) : cmp[k][1] = f
ResultOf(f) == cmp[CHOOSE k \in 1..Len(cmp) : cmp[k][1] = f][2]

Call(f, results) ==
    /\ seq1 # NULL /\ seq2 # NULL
    /\ ~Called(f)
    /\ \E r \in results : cmp' = Append(cmp, <<f, r>>)
    /\ UNCHANGED <<input1, input2, seq1, seq2>>
    /\ UNCHANGED <<parserVars, nodeVars, canonVars, ruleVars, scanVars, aliveVars, orderVars, cursorVars, runVars, nameVars>>

\* bnf_ast::ast_equal(seq1, seq2)
CallEqual == Len(cmp) = 0 /\ Call("equal12", ast_equal(seq1, seq2))

\* bnf_ast::ast_equal(seq2, seq1)
CallEqualReversed == Len(cmp) = 1 /\ Call("equal21", ast_equal(seq2, seq1))

\* bnf_ast::ast_less_than(seq1, seq2)
CallLessThan == Len(cmp) = 2 /\ Call("less12", ast_less_than(seq1, seq2))

\* bnf_ast::ast_less_than(seq2, seq1)
CallLessThanReversed == Len(cmp) = 3 /\ Call("less21", ast_less_than(seq2, seq1))

\* EBNF::ast_equal on the trees that EBNF::Parser builds from the two inputs
CallEbnfEqual ==
    Len(cmp) = 4 /\ Call("ebnf_equal12",
                         E_ast_equal(ParseOf(input1, 0).ast, ParseOf(input2, 0).ast))

CompareDone == Len(cmp) = 5

NextCompare ==
    \/ DoParse
    \/ CallEqual
    \/ CallEqualReversed
    \/ CallLessThan
    \/ CallLessThanReversed
    \/ CallEbnfEqual

SpecCompare == InitCompare /\ [][NextCompare]_vars

\* ------------------------------------------------------------------------
\* The comparison functions on single nodes.  The nodes are those of parsed
\* rule-sets: every node of the tree of a rule  a = term ;

\* every node of a tree
RECURSIVE Subtrees(_)
Subtrees(t) == {t} \cup UNION {Subtrees(t.vec[i]) : i \in 1..Len(t.vec)}

Nodes == UNION {Subtrees(do_parse(RuleText(S_a, t) \o <<EofToken>>)) : t \in TermTexts}

NodeOf(k) == IF k = 1 THEN node1 ELSE IF k = 2 THEN node2 ELSE node3

InitNodes ==
    /\ node1 \in Nodes
    /\ node2 \in Nodes
    /\ node3 \in Nodes
    /\ rel = <<>>
    /\ node_equal = "none"
    /\ NoParser /\ NoCompare /\ NoCanon /\ NoRules /\ NoScan /\ NoAlive
    /\ NoOrder /\ NoCursor /\ NoRun /\ NoNames

\* ast_less_than(a, b, true) and ast_equal(a, b, true), as the sort and the
\* duplicate removal of sorted_clone call them, for every two of the nodes
CompareNodes ==
    /\ node1 # NULL
    /\ rel = <<>>
    /\ rel' = <<[less |-> [i \in 1..3 |-> [j \in 1..3 |->
                             ast_less_than_sorted(NodeOf(i), NodeOf(j))]],
                 equal |-> [i \in 1..3 |-> [j \in 1..3 |->
                             ast_equal_sorted(NodeOf(i), NodeOf(j))]]]>>
    /\ UNCHANGED <<node1, node2, node3, node_equal>>
    /\ UNCHANGED <<parserVars, compareVars, canonVars, ruleVars, scanVars, aliveVars, orderVars, cursorVars, runVars, nameVars>>

\* ast_equal(node1, node2)
CallNodeEqual ==
    /\ rel # <<>>
    /\ node_equal = "none"
    /\ node_equal' \in ast_equal(node1, node2)
    /\ UNCHANGED <<node1, node2, node3, rel>>
    /\ UNCHANGED <<parserVars, compareVars, canonVars, ruleVars, scanVars, aliveVars, orderVars, cursorVars, runVars, nameVars>>

NextNodes == CompareNodes \/ CallNodeEqual

SpecNodes == InitNodes /\ [][NextNodes]_vars

\* ------------------------------------------------------------------------
\* sorted_clone applied to a parsed tree, and to its own result

MaxFactors == 2

\* x   y   ( x | y )   ( x )   [ x ]   { y }   and the empty factor
CanonFactorTexts ==
    {<<T_x>>, <<T_y>>, <<>>,
     <<T_lparen, T_x, T_bar, T_y, T_rparen>>,
     <<T_lparen, T_x, T_rparen>>,
     <<T_lbracket, T_x, T_rbracket>>,
     <<T_lbrace, T_y, T_rbrace>>}

CanonInputs ==
    {RuleText(S_a, b) \o <<EofToken>> :
        b \in Joined(CanonFactorTexts, T_comma, MaxFactors)
              \cup Joined(CanonFactorTexts, T_bar, MaxFactors)}

InitCanon ==
    /\ tree \in {do_parse(t) : t \in CanonInputs}
    /\ clone1 = NULL
    /\ clone2 = NULL
    /\ NoParser /\ NoCompare /\ NoNodes /\ NoRules /\ NoScan /\ NoAlive
    /\ NoOrder /\ NoCursor /\ NoRun /\ NoNames

\* clone1 = tree->sorted_clone()
SortedClone ==
    /\ tree # NULL
    /\ clone1 = NULL
    /\ clone1' \in sorted_clone(tree)
    /\ UNCHANGED <<tree, clone2>>
    /\ UNCHANGED <<parserVars, compareVars, nodeVars, ruleVars, scanVars, aliveVars, orderVars, cursorVars, runVars, nameVars>>

\* clone2 = clone1->sorted_clone()
SortedCloneAgain ==
    /\ clone1 # NULL
    /\ clone2 = NULL
    /\ clone2' \in sorted_clone(clone1)
    /\ UNCHANGED <<tree, clone1>>
    /\ UNCHANGED <<parserVars, compareVars, nodeVars, ruleVars, scanVars, aliveVars, orderVars, cursorVars, runVars, nameVars>>

NextCanon == SortedClone \/ SortedCloneAgain

SpecCanon == InitCanon /\ [][NextCanon]_vars

\* ------------------------------------------------------------------------
\* Editing a rule list: ast_join_joinable_rules and ast_add_rule

MaxRules == 3
MaxOps == 2

\* a = x ;   a = y ;   a = x | x ;   b = 2 * [y] ;
RuleTexts ==
    {RuleText(S_a, b) : b \in {<<T_x>>, <<T_y>>, <<T_x, T_bar, T_x>>}}
    \cup {RuleText(S_b, <<IntegerToken(S_2, 2), T_star, T_lbracket, T_y, T_rbracket>>)}

RECURSIVE RuleLists(_)
RuleLists(n) ==
    IF n = 0 THEN {<<>>}
    ELSE RuleLists(n - 1)
         \cup {r \o l : r \in RuleTexts, l \in RuleLists(n - 1)}

\* the rule list edited: the text l parsed, or new SeqAst("rules")
RuleSetOf(l) == IF l = <<>> THEN SeqAst(S_rules, <<>>) ELSE do_parse(l \o <<EofToken>>)

RuleSets == {RuleSetOf(l) : l \in RuleLists(MaxRules)}

\* the bodies handed to ast_add_rule:  x   ( x | y )   x | x
CandidateTexts ==
    {<<T_x>>, <<T_lparen, T_x, T_bar, T_y, T_rparen>>, <<T_x, T_bar, T_x>>}

Candidates == {m_right(do_parse(RuleText(S_a, b) \o <<EofToken>>).vec[1]) : b \in CandidateTexts}

\* the names asked for:  a   a-02
CandidateNames == {S_a, S_a_02}

InitRules ==
    /\ source \in RuleLists(MaxRules)
    /\ rules = RuleSetOf(source)
    /\ name = <<>>
    /\ rule_expr = NULL
    /\ ndebug \in BOOLEAN
    /\ before = NULL
    /\ status = "none"
    /\ join_ret = FALSE
    /\ ops = 0
    /\ NoParser /\ NoCompare /\ NoNodes /\ NoCanon /\ NoScan /\ NoAlive
    /\ NoOrder /\ NoCursor /\ NoRun /\ NoNames

\* the program has not stopped
Running == rules # NULL /\ status \notin {"crashed", "aborted"} /\ ops < MaxOps

\* join_ret = ast_join_joinable_rules(rules)
Join ==
    /\ Running
    /\ rules' = ast_join_joinable_rules(rules).rules
    /\ join_ret' = ast_join_joinable_rules(rules).ret
    /\ before' = rules
    /\ status' = "joined"
    /\ ops' = ops + 1
    /\ UNCHANGED <<name, rule_expr, ndebug, source>>
    /\ UNCHANGED <<parserVars, compareVars, nodeVars, canonVars, scanVars, aliveVars, orderVars, cursorVars, runVars, nameVars>>

\* name = n; ast_add_rule(rules, name, e)
AddRule ==
    /\ Running
    /\ \E n \in CandidateNames, e \in Candidates :
          /\ rule_expr' = e
          /\ \E r \in ast_add_rule(rules, n, e, ndebug) :
                /\ rules' = r.rules
                /\ name' = r.name
                /\ status' = r.status
    /\ before' = rules
    /\ ops' = ops + 1
    /\ UNCHANGED <<join_ret, ndebug, source>>
    /\ UNCHANGED <<parserVars, compareVars, nodeVars, canonVars, scanVars, aliveVars, orderVars, cursorVars, runVars, nameVars>>

NextRules == Join \/ AddRule

SpecRules == InitRules /\ [][NextRules]_vars

\* ------------------------------------------------------------------------
\* TokenStream::scan_tokens (EbnfParseTest.cpp, just_do_it)

MaxInput == 4

\* the characters of the inputs: line feed, NUL, the byte 0xFF, both quotes,
\* "(", ")", "*", "1", "?", "_" and "a"
ScanChars == {10, 0, -1, 34, 39, 40, 41, 42, 49, 63, 95, 97}

RECURSIVE Texts(_)
Texts(n) ==
    IF n = 0 THEN {<<>>}
    ELSE Texts(n - 1) \cup {t \o <<c>> : t \in Texts(n - 1), c \in ScanChars}

\* StringScanner scanner(str); TokenStream stream(scanner);
InitScan ==
    /\ scanner_str \in Texts(MaxInput)
    /\ scanner_index = 0
    /\ stream_tokens = <<>>
    /\ stream_errors = <<>>
    /\ scan_ret = "none"
    /\ NoParser /\ NoCompare /\ NoNodes /\ NoCanon /\ NoRules /\ NoAlive
    /\ NoOrder /\ NoCursor /\ NoRun /\ NoNames

\* stream.scan_tokens()
ScanTokens ==
    /\ scan_ret = "none"
    /\ LET r == scan_tokens(scanner_str)
       IN  /\ scanner_index' = r.index
           /\ stream_tokens' = r.tokens
           /\ stream_errors' = r.errors
           /\ scan_ret' = r.ret
    /\ UNCHANGED scanner_str
    /\ UNCHANGED <<parserVars, compareVars, nodeVars, canonVars, ruleVars, aliveVars, orderVars, cursorVars, runVars, nameVars>>

NextScan == ScanTokens

SpecScan == InitScan /\ [][NextScan]_vars

\* ------------------------------------------------------------------------
\* The live nodes of a test program.  "parser" is just_do_it of
\* EbnfParser.cpp: a Parser is made on the scanned stream, parse() is called
\* and the Parser is destroyed.  "compare" is just_do_it of
\* EbnfCompareTest.cpp: two inputs are parsed, the trees are compared with
\* ast_equal and, unless they are equal, with ast_less_than, and deleted.
\* The functions are called on the two rule lists, as just_do_it calls them,
\* or on the first rule of each list, or on the bodies of these rules, as
\* ast_add_rule calls ast_equal.  A call that reads outside a vector may end
\* the run ("aborted").

\* a = x ;   a = ( x | y ) | x ;   a = x , ( y ) ;
OtherInputs ==
    {RuleText(S_a, b) \o <<EofToken>> :
        b \in {<<T_x>>,
               <<T_lparen, T_x, T_bar, T_y, T_rparen, T_bar, T_x>>,
               <<T_x, T_comma, T_lparen, T_y, T_rparen>>}}

\* bodies with a term  factor - exception  or a factor  integer * primary,
\* most of them failing after nodes were made:
\* 'x' - y   'x' - =   [ 'x' ] - 2   2 * =   'x' , 2 * 2   ( 'x' - * )   { 2 * }
TermBodies ==
    {<<StringToken(S_x), T_minus, T_y>>,
     <<StringToken(S_x), T_minus, T_assign>>,
     <<T_lbracket, StringToken(S_x), T_rbracket, T_minus, IntegerToken(S_2, 2)>>,
     <<IntegerToken(S_2, 2), T_star, T_assign>>,
     <<StringToken(S_x), T_comma, IntegerToken(S_2, 2), T_star, IntegerToken(S_2, 2)>>,
     <<T_lparen, StringToken(S_x), T_minus, T_star, T_rparen>>,
     <<T_lbrace, IntegerToken(S_2, 2), T_star, T_rbrace>>}

\* the inputs of the "parser" program
ParserInputs ==
    TokenLists \cup {OnePerLine(RuleText(S_a, b) \o <<EofToken>>) : b \in TermBodies}

InitAlive ==
    /\ \/ /\ test_program = "parser"
          /\ test_input1 \in ParserInputs
          /\ test_input2 = <<>>
          /\ test_on = "none"
       \/ /\ test_program = "compare"
          /\ test_input1 \in CanonInputs
          /\ test_input2 \in OtherInputs \cup {test_input1}
          /\ test_on \in {"rules", "rule", "body"}
    /\ owned1 = NULL
    /\ owned2 = NULL
    /\ alive_count = 0
    /\ alive_before = 0
    /\ test_pc = "start"
    /\ test_ret = "none"
    /\ NoParser /\ NoCompare /\ NoNodes /\ NoCanon /\ NoRules /\ NoScan
    /\ NoOrder /\ NoCursor /\ NoRun /\ NoNames

\* parser.parse()
CountedParse ==
    /\ test_program = "parser"
    /\ test_pc = "start"
    /\ LET r == ParseOf(test_input1, 0)
       IN  /\ owned1' = r.ast
           /\ alive_count' = alive_count - Count(owned1) + r.alive
           /\ test_ret' = Bool(r.ret)
    /\ alive_before' = alive_count
    /\ test_pc' = "parsed"
    /\ UNCHANGED <<test_program, test_input1, test_input2, test_on, owned2>>
    /\ UNCHANGED <<parserVars, compareVars, nodeVars, canonVars, ruleVars, scanVars, orderVars, cursorVars, runVars, nameVars>>

\* ~Parser(): delete m_ast
ParserDestroyed ==
    /\ test_program = "parser"
    /\ test_pc = "parsed"
    /\ owned1' = NULL
    /\ alive_count' = alive_count - Count(owned1)
    /\ test_pc' = "done"
    /\ UNCHANGED <<test_program, test_input1, test_input2, test_on, owned2, alive_before, test_ret>>
    /\ UNCHANGED <<parserVars, compareVars, nodeVars, canonVars, ruleVars, scanVars, orderVars, cursorVars, runVars, nameVars>>

\* seq1 = do_parse(entry->input1); seq2 = do_parse(entry->input2);
CountedDoParse ==
    /\ test_program = "compare"
    /\ test_pc = "start"
    /\ owned1' = do_parse(test_input1)
    /\ owned2' = do_parse(test_input2)
    /\ alive_count' = alive_count + Count(owned1') + Count(owned2')
    /\ alive_before' = alive_count
    /\ test_pc' = "parsed"
    /\ UNCHANGED <<test_program, test_input1, test_input2, test_on, test_ret>>
    /\ UNCHANGED <<parserVars, compareVars, nodeVars, canonVars, ruleVars, scanVars, orderVars, cursorVars, runVars, nameVars>>

\* the node of the rule list seq that is handed to the comparison
Operand(seq) ==
    CASE test_on = "rule" -> seq.vec[1]
      [] test_on = "body" -> m_right(seq.vec[1])
      [] OTHER -> seq

\* a comparison that has one of the outcomes
Compared(pc, outcomes) ==
    /\ test_program = "compare"
    /\ owned1 # NULL /\ owned2 # NULL
    /\ \E o \in outcomes :
          /\ alive_count' = alive_count + o.alive
          /\ test_ret' = o.ret
          /\ test_pc' = IF o.ret = "UB" THEN "aborted" ELSE pc
    /\ alive_before' = alive_count
    /\ UNCHANGED <<test_program, test_input1, test_input2, test_on, owned1, owned2>>
    /\ UNCHANGED <<parserVars, compareVars, nodeVars, canonVars, ruleVars, scanVars, orderVars, cursorVars, runVars, nameVars>>

\* if (ast_equal(seq1, seq2))
CountedEqual ==
    test_pc = "parsed" /\ Compared("equal", ast_equal_alive(Operand(owned1), Operand(owned2)))

\* else if (ast_less_than(seq1, seq2))
CountedLessThan ==
    /\ test_pc = "equal" /\ test_ret = "false"
    /\ Compared("less_than",
                ast_less_than_alive(Operand(owned1), Operand(owned2)))

\* delete seq1; delete seq2; at either place of just_do_it
TreesDeleted ==
    /\ test_program = "compare"
    /\ \/ test_pc = "parsed" /\ (owned1 = NULL \/ owned2 = NULL)
       \/ test_pc = "equal" /\ test_ret = "true"
       \/ test_pc = "less_than"
    /\ owned1' = NULL
    /\ owned2' = NULL
    /\ alive_count' = alive_count - Count(owned1) - Count(owned2)
    /\ test_pc' = "done"
    /\ UNCHANGED <<test_program, test_input1, test_input2, test_on, alive_before, test_ret>>
    /\ UNCHANGED <<parserVars, compareVars, nodeVars, canonVars, ruleVars, scanVars, orderVars, cursorVars, runVars, nameVars>>

NextAlive ==
    \/ CountedParse
    \/ ParserDestroyed
    \/ CountedDoParse
    \/ CountedEqual
    \/ CountedLessThan
    \/ TreesDeleted

SpecAlive == InitAlive /\ [][NextAlive]_vars

\* ------------------------------------------------------------------------
\* Two Seq nodes handed to bnf_ast::ast_equal or bnf_ast::ast_less_than with
\* already_sorted = false: the rule lists of two parsed grammars, the bodies
\* of their first rules, or the first alternatives of those bodies.

MaxChoices == 3

S_test == <<116, 101, 115, 116>>
S_test1 == <<116, 101, 115, 116, 49>>

\* alternations of at most MaxChoices of the identifiers a, b, c
ChoiceTexts ==
    Joined({<<IdentToken(S_a)>>, <<IdentToken(S_b)>>, <<IdentToken(S_c)>>}, T_bar, MaxChoices)

\* b = a ;   test = a ;   test1 = a ;   a = 'a' ;   a = ( a | b ) ;
\* a = ( a | c ) ;   a = a , ;   a = a ; b = b ;   b = b ; a = a ;
OtherGrammars ==
    {RuleText(S_b, <<IdentToken(S_a)>>),
     RuleText(S_test, <<IdentToken(S_a)>>),
     RuleText(S_test1, <<IdentToken(S_a)>>),
     RuleText(S_a, <<StringToken(S_a)>>),
     RuleText(S_a, <<T_lparen, IdentToken(S_a), T_bar, IdentToken(S_b), T_rparen>>),
     RuleText(S_a, <<T_lparen, IdentToken(S_a), T_bar, IdentToken(S_c), T_rparen>>),
     RuleText(S_a, <<IdentToken(S_a), T_comma>>),
     RuleText(S_a, <<IdentToken(S_a)>>) \o RuleText(S_b, <<IdentToken(S_b)>>),
     RuleText(S_b, <<IdentToken(S_b)>>) \o RuleText(S_a, <<IdentToken(S_a)>>)}

Grammars ==
    {do_parse(t \o <<EofToken>>) :
        t \in {RuleText(S_a, b) : b \in ChoiceTexts} \cup OtherGrammars}

\* the Seq nodes of the grammar g: "rules", "expr" and "terms"
SeqNodeOf(g, tag) ==
    IF tag = S_rules THEN g
    ELSE IF tag = S_expr THEN m_right(g.vec[1])
    ELSE m_right(g.vec[1]).vec[1]

\* the indexes i for which the loop over the clones evaluates
\* seq1->m_vec[i] and seq2->m_vec[i]: it runs from 0 to n - 1 and stops at
\* the first pair that is not equal
SeqLoopUsed(v1, v2, n) ==
    LET bad == {i \in 1..n : i > Len(v1) \/ i > Len(v2)
                                \/ ~ast_equal_sorted(v1[i], v2[i])}
    IN  IF bad = {} THEN 0..(n - 1) ELSE 0..(MinOf(bad) - 1)

InitOrder ==
    /\ \E tag \in {S_rules, S_expr, S_terms} :
          /\ order_ast1 \in {SeqNodeOf(g, tag) : g \in Grammars}
          /\ order_ast2 \in {SeqNodeOf(g, tag) : g \in Grammars}
    /\ order_fn = "none"
    /\ order_ret = "none"
    /\ order_clone1 = NULL
    /\ order_clone2 = NULL
    /\ order_used = {}
    /\ NoParser /\ NoCompare /\ NoNodes /\ NoCanon /\ NoRules /\ NoScan /\ NoAlive
    /\ NoCursor /\ NoRun /\ NoNames

\* a call of fn that returns before it clones
OrderReturned(fn, ret) ==
    /\ order_fn' = fn
    /\ order_ret' = ret
    /\ order_clone1' = NULL
    /\ order_clone2' = NULL
    /\ order_used' = {}

\* a call of fn that clones both nodes and runs its loop up to n
OrderLooped(fn, n, c1, c2, results) ==
    /\ order_fn' = fn
    /\ order_ret' \in results
    /\ order_clone1' = c1
    /\ order_clone2' = c2
    /\ order_used' = SeqLoopUsed(c1.vec, c2.vec, n)

\* bnf_ast::ast_equal(order_ast1, order_ast2), ATYPE_SEQ case
OrderEqual ==
    /\ order_ast1 # NULL /\ order_fn = "none"
    /\ IF order_ast1.str # order_ast2.str \/ Len(order_ast1.vec) # Len(order_ast2.vec)
       THEN OrderReturned("equal", "false")
       ELSE \E c1 \in sorted_clone(order_ast1), c2 \in sorted_clone(order_ast2) :
               OrderLooped("equal", Len(order_ast1.vec), c1, c2,
                           SeqEqualLoop(c1.vec, c2.vec, Len(order_ast1.vec)))
    /\ UNCHANGED <<order_ast1, order_ast2>>
    /\ UNCHANGED <<parserVars, compareVars, nodeVars, canonVars, ruleVars, scanVars, aliveVars, cursorVars, runVars, nameVars>>

\* bnf_ast::ast_less_than(order_ast1, order_ast2), ATYPE_SEQ case
OrderLessThan ==
    /\ order_ast1 # NULL /\ order_fn = "none"
    /\ IF order_ast1.str # order_ast2.str
       THEN OrderReturned("less_than", Bool(StrLess(order_ast1.str, order_ast2.str)))
       ELSE \E c1 \in sorted_clone(order_ast1), c2 \in sorted_clone(order_ast2) :
               LET count == IF Len(order_ast1.vec) < Len(order_ast2.vec)
                            THEN Len(order_ast1.vec) ELSE Len(order_ast2.vec)
               IN  OrderLooped("less_than", count, c1, c2,
                               SeqLessLoop(c1.vec, c2.vec, count))
    /\ UNCHANGED <<order_ast1, order_ast2>>
    /\ UNCHANGED <<parserVars, compareVars, nodeVars, canonVars, ruleVars, scanVars, aliveVars, cursorVars, runVars, nameVars>>

NextOrder == OrderEqual \/ OrderLessThan

SpecOrder == InitOrder /\ [][NextOrder]_vars

\* ------------------------------------------------------------------------
\* The cursor of a TokenStream moved by next(), unget(count) and index(pos)

MaxStream == 3
MaxMoves == 3

\* TokenStream::next, its return value
next_returns(toks, i) == i + 1 < Len(toks)

\* TokenStream::unget(count): the cursor afterwards
unget(i, count) == IF count <= i THEN i - count ELSE 0

\* TokenStream::index(pos): the return value and the cursor afterwards
index(toks, i, pos) ==
    IF pos <= Len(toks) THEN [ret |-> TRUE, m_index |-> pos]
    ELSE [ret |-> FALSE, m_index |-> i]

\* streams of 1..MaxStream tokens, with or without the EndOfFile token last
CursorStreams ==
    UNION {{[k \in 1..n |-> IdentToken(S_a)],
            [k \in 1..n |-> IF k = n THEN EofToken ELSE IdentToken(S_a)]} :
              n \in 1..MaxStream}

InitCursor ==
    /\ cursor_tokens \in CursorStreams
    /\ cursor_index = 0
    /\ cursor_call = "none"
    /\ cursor_arg = 0
    /\ cursor_ret = "none"
    /\ cursor_before = 0
    /\ cursor_calls = 0
    /\ NoParser /\ NoCompare /\ NoNodes /\ NoCanon /\ NoRules /\ NoScan /\ NoAlive
    /\ NoOrder /\ NoRun /\ NoNames

\* a call that leaves the cursor at i and returns ret
CursorCalled(call, arg, i, ret) ==
    /\ cursor_tokens # <<>>
    /\ cursor_calls < MaxMoves
    /\ cursor_call' = call
    /\ cursor_arg' = arg
    /\ cursor_index' = i
    /\ cursor_ret' = ret
    /\ cursor_before' = cursor_index
    /\ cursor_calls' = cursor_calls + 1
    /\ UNCHANGED cursor_tokens
    /\ UNCHANGED <<parserVars, compareVars, nodeVars, canonVars, ruleVars, scanVars, aliveVars, orderVars, runVars, nameVars>>

\* stream.next()
CursorNext ==
    CursorCalled("next", 0, next(cursor_tokens, cursor_index),
                 Bool(next_returns(cursor_tokens, cursor_index)))

\* stream.unget(count)
CursorUnget ==
    \E count \in 0..(MaxStream + 1) :
        CursorCalled("unget", count, unget(cursor_index, count), "void")

\* stream.index(pos)
CursorIndex ==
    \E pos \in 0..(MaxStream + 1) :
        CursorCalled("index", pos, index(cursor_tokens, cursor_index, pos).m_index,
                     Bool(index(cursor_tokens, cursor_index, pos).ret))

NextCursor == CursorNext \/ CursorUnget \/ CursorIndex

SpecCursor == InitCursor /\ [][NextCursor]_vars

\* ------------------------------------------------------------------------
\* Parser::parse run step by step.  run_stack holds the productions entered
\* and not yet left, each with the place where it goes on when the
\* production it has called returns.  A step runs the innermost production
\* up to its next call or to its return.  What a production does next
\* depends on the current token and on whether the production it called
\* returned a node or NULL, never on the node itself, so run_ret keeps that
\* much of the node.

MaxTail == 3
MaxDepth == 40

\* the tokens that follow  a =  in the inputs
TailTokens ==
    {IdentToken(S_a), StringToken(S_x), T_semi, T_bar, T_comma, T_lparen, T_rparen,
     T_minus, IntegerToken(S_2, 2), T_star}

RECURSIVE Tails(_)
Tails(n) ==
    IF n = 0 THEN {<<>>}
    ELSE Tails(n - 1) \cup {<<t>> \o l : t \in TailTokens, l \in Tails(n - 1)}

\* a =  and up to MaxTail tokens, as scan_tokens leaves them: with the
\* EndOfFile token last when it returns true, without it when it returns
\* false (the list is then what was scanned before the error)
RunInputs ==
    UNION {{<<IdentToken(S_a), T_assign>> \o l,
            <<IdentToken(S_a), T_assign>> \o l \o <<EofToken>>} : l \in Tails(MaxTail)}

Frame(fn, pc, close) == [fn |-> fn, pc |-> pc, close |-> close]
Entered(fn) == Frame(fn, "enter", EofToken)

\* the innermost production
Top == run_stack[Len(run_stack)]

\* the innermost production is fn
Inside(fn) == run_result = "running" /\ run_stack # <<>> /\ Top.fn = fn

\* the innermost production moves the cursor to i and calls callee; it goes
\* on at pc.  The stack of the program holds MaxDepth productions.
Calls(pc, callee, i) ==
    /\ run_index' = i
    /\ run_ret' = "none"
    /\ IF Len(run_stack) < MaxDepth
       THEN /\ run_stack' = Append([run_stack EXCEPT ![Len(run_stack)].pc = pc], callee)
            /\ run_result' = run_result
       ELSE /\ run_stack' = run_stack
            /\ run_result' = "stack overflow"
    /\ UNCHANGED run_tokens

\* the innermost production moves the cursor to i and returns val
Returns(val, i) ==
    /\ run_index' = i
    /\ run_ret' = val
    /\ run_stack' = SubSeq(run_stack, 1, Len(run_stack) - 1)
    /\ UNCHANGED <<run_tokens, run_result>>

InitRun ==
    /\ run_tokens \in RunInputs
    /\ run_index = 0
    /\ run_stack = <<>>
    /\ run_ret = "none"
    /\ run_result = "none"
    /\ NoParser /\ NoCompare /\ NoNodes /\ NoCanon /\ NoRules /\ NoScan /\ NoAlive
    /\ NoOrder /\ NoCursor /\ NoNames

\* Parser::parse up to the call of visit_syntax
RunParse ==
    /\ run_tokens # <<>> /\ run_result = "none"
    /\ run_tokens' = join_words(delete_comments(run_tokens))
    /\ run_stack' = <<Entered("syntax")>>
    /\ run_result' = "running"
    /\ UNCHANGED <<run_index, run_ret>>
    /\ UNCHANGED <<parserVars, compareVars, nodeVars, canonVars, ruleVars, scanVars, aliveVars, orderVars, cursorVars, nameVars>>

\* Parser::parse after visit_syntax
RunParsed ==
    /\ run_result = "running" /\ run_stack = <<>>
    /\ run_result' = Bool(run_ret = "node" /\ type(run_tokens, run_index) = TOK_EOF)
    /\ UNCHANGED <<run_tokens, run_index, run_stack, run_ret>>
    /\ UNCHANGED <<parserVars, compareVars, nodeVars, canonVars, ruleVars, scanVars, aliveVars, orderVars, cursorVars, nameVars>>

\* Parser::visit_syntax
RunSyntax ==
    /\ Inside("syntax")
    /\ IF Top.pc = "enter" THEN Calls("rule", Entered("syntax_rule"), run_index)
       ELSE IF run_ret = "null" THEN Returns("null", run_index)
       ELSE IF type(run_tokens, run_index) = TOK_EOF THEN Returns("node", run_index)
       ELSE Calls("rule", Entered("syntax_rule"), run_index)
    /\ UNCHANGED <<parserVars, compareVars, nodeVars, canonVars, ruleVars, scanVars, aliveVars, orderVars, cursorVars, nameVars>>

\* Parser::visit_syntax_rule
RunSyntaxRule ==
    /\ Inside("syntax_rule")
    /\ IF Top.pc = "enter"
       THEN IF type(run_tokens, run_index) # TOK_IDENT THEN Returns("null", run_index)
            ELSE IF ~IsSym(run_tokens, next(run_tokens, run_index), T_assign)
            THEN Returns("null", next(run_tokens, run_index))
            ELSE Calls("defs", Entered("definitions_list"),
                       next(run_tokens, next(run_tokens, run_index)))
       ELSE IF run_ret = "null" THEN Returns("null", run_index)
       ELSE IF ~IsSym(run_tokens, run_index, T_semi) THEN Returns("null", run_index)
       ELSE Returns("node", next(run_tokens, run_index))
    /\ UNCHANGED <<parserVars, compareVars, nodeVars, canonVars, ruleVars, scanVars, aliveVars, orderVars, cursorVars, nameVars>>

\* the loop of visit_definitions_list (sep '|', callee single_definition)
\* and of visit_single_definition (sep ',', callee term): the node returned
\* is pushed, and after sep the callee is called again
RunList(fn, sep, callee) ==
    /\ Inside(fn)
    /\ IF Top.pc = "enter" THEN Calls("pushed", Entered(callee), run_index)
       ELSE IF run_ret = "null" THEN Returns("null", run_index)
       ELSE IF IsSym(run_tokens, run_index, sep)
       THEN Calls("pushed", Entered(callee), next(run_tokens, run_index))
       ELSE Returns("node", run_index)
    /\ UNCHANGED <<parserVars, compareVars, nodeVars, canonVars, ruleVars, scanVars, aliveVars, orderVars, cursorVars, nameVars>>

\* Parser::visit_definitions_list
RunDefinitionsList == RunList("definitions_list", T_bar, "single_definition")

\* Parser::visit_single_definition
RunSingleDefinition == RunList("single_definition", T_comma, "term")

\* Parser::visit_term (visit_exception is visit_factor)
RunTerm ==
    /\ Inside("term")
    /\ IF Top.pc = "enter" THEN Calls("fact", Entered("factor"), run_index)
       ELSE IF Top.pc = "ex" THEN Returns(run_ret, run_index)
       ELSE IF run_ret = "null" THEN Returns("null", run_index)
       ELSE IF IsSym(run_tokens, run_index, T_minus)
       THEN Calls("ex", Entered("factor"), next(run_tokens, run_index))
       ELSE Returns("node", run_index)
    /\ UNCHANGED <<parserVars, compareVars, nodeVars, canonVars, ruleVars, scanVars, aliveVars, orderVars, cursorVars, nameVars>>

\* Parser::visit_factor
RunFactor ==
    /\ Inside("factor")
    /\ IF Top.pc # "enter" THEN Returns(run_ret, run_index)
       ELSE IF type(run_tokens, run_index) # TOK_INTEGER
       THEN Calls("prim", Entered("primary"), run_index)
       ELSE IF IsSym(run_tokens, next(run_tokens, run_index), T_star)
       THEN Calls("prim", Entered("primary"),
                  next(run_tokens, next(run_tokens, run_index)))
       ELSE Returns("null", next(run_tokens, run_index))
    /\ UNCHANGED <<parserVars, compareVars, nodeVars, canonVars, ruleVars, scanVars, aliveVars, orderVars, cursorVars, nameVars>>

\* Parser::visit_primary
RunPrimary ==
    /\ Inside("primary")
    /\ IF Top.pc # "enter" THEN Returns(run_ret, run_index)
       ELSE IF type(run_tokens, run_index) \in {TOK_STRING, TOK_IDENT, TOK_SPECIAL}
       THEN Returns("node", next(run_tokens, run_index))
       ELSE IF \E b \in Brackets : IsSym(run_tokens, run_index, b.open)
       THEN \E b \in Brackets :
               /\ IsSym(run_tokens, run_index, b.open)
               /\ Calls("seq", Frame("sequence", "enter", b.close), run_index)
       ELSE IF \E t \in {T_semi, T_bar, T_comma, T_rparen, T_rbrace, T_rbracket} :
                  IsSym(run_tokens, run_index, t)
       THEN Returns("node", run_index)
       ELSE Returns("null", run_index)
    /\ UNCHANGED <<parserVars, compareVars, nodeVars, canonVars, ruleVars, scanVars, aliveVars, orderVars, cursorVars, nameVars>>

\* Parser::visit_optional_sequence, visit_repeated_sequence and
\* visit_grouped_sequence
RunSequence ==
    /\ Inside("sequence")
    /\ IF Top.pc = "enter"
       THEN Calls("defs", Entered("definitions_list"),
                  next(run_tokens, run_index))
       ELSE IF run_ret = "null" THEN Returns("null", run_index)
       ELSE IF ~IsSym(run_tokens, run_index, Top.close) THEN Returns("null", run_index)
       ELSE Returns("node", next(run_tokens, run_index))
    /\ UNCHANGED <<parserVars, compareVars, nodeVars, canonVars, ruleVars, scanVars, aliveVars, orderVars, cursorVars, nameVars>>

NextRun ==
    \/ RunParse
    \/ RunParsed
    \/ RunSyntax
    \/ RunSyntaxRule
    \/ RunDefinitionsList
    \/ RunSingleDefinition
    \/ RunTerm
    \/ RunFactor
    \/ RunPrimary
    \/ RunSequence

\* the program is one thread that runs as long as it has a step to take
SpecRun == InitRun /\ [][NextRun]_vars /\ WF_vars(NextRun)

\* ------------------------------------------------------------------------
\* name_increment applied again and again, as the second loop of
\* ast_add_rule does while the name is that of a rule

MaxDigits == 10
MaxIncrements == 3

\* strings of at most n of the digits 0 and 9
RECURSIVE DigitRuns(_)
DigitRuns(n) ==
    IF n = 0 THEN {<<>>}
    ELSE DigitRuns(n - 1) \cup {<<d>> \o r : d \in {48, 57}, r \in DigitRuns(n - 1)}

\* nothing, a or 7a, followed by at most MaxDigits digits or by the
\* digits of INT_MAX, INT_MAX + 1 or 4294967295, and the names a7b and a_02
GivenNames ==
    {p \o r : p \in {<<>>, <<97>>, <<55, 97>>},
              r \in DigitRuns(MaxDigits)
                    \cup {<<50, 49, 52, 55, 52, 56, 51, 54, 52, 55>>,
                          <<50, 49, 52, 55, 52, 56, 51, 54, 52, 56>>,
                          <<52, 50, 57, 52, 57, 54, 55, 50, 57, 53>>}}
    \cup {<<97, 55, 98>>, <<97, 95, 48, 50>>}

InitNames ==
    /\ given_name \in GivenNames
    /\ fresh_name = given_name
    /\ fresh_before = <<>>
    /\ fresh_seen = {}
    /\ libc \in Libs
    /\ NoParser /\ NoCompare /\ NoNodes /\ NoCanon /\ NoRules /\ NoScan /\ NoAlive
    /\ NoOrder /\ NoCursor /\ NoRun

\* name_increment(name)
NameIncrement ==
    /\ libc \in Libs
    /\ Cardinality(fresh_seen) < MaxIncrements
    /\ fresh_name \notin fresh_seen
    /\ fresh_name' = name_increment(fresh_name, libc)
    /\ fresh_before' = fresh_name
    /\ fresh_seen' = fresh_seen \cup {fresh_name}
    /\ UNCHANGED <<given_name, libc>>
    /\ UNCHANGED <<parserVars, compareVars, nodeVars, canonVars, ruleVars, scanVars, aliveVars, orderVars, cursorVars, runVars>>

NextNames == NameIncrement

SpecNames == InitNames /\ [][NextNames]_vars

\* ------------------------------------------------------------------------
\* Properties

\* whether Parser::parse succeeds on a fresh stream holding toks
ParsesOk(toks) == ParseOf(toks, 0).ret

\* the first k tokens of the stream, closed by EndOfFile, and the rest
StreamPrefix(k) == SubSeq(m_tokens, 1, k) \o <<EofToken>>
StreamRest(k) == SubSeq(m_tokens, k + 1, Len(m_tokens))

\* C1: Parser::parse returns true only with a tree in m_ast and the cursor
\* on the EndOfFile token, and returns false with m_ast null; a stream whose
\* first tokens are a valid list of rules and whose remaining tokens are
\* not one is refused, no tree of the valid part being kept.
C1_ParseSucceedsOnlyAtEndOfFile ==
    parse_ret # "none" =>
        /\ parse_ret = "true" =>
              /\ m_ast # NULL
              /\ type(m_tokens, m_index) = TOK_EOF
              /\ m_index = Len(m_tokens) - 1
        /\ parse_ret = "false" => m_ast = NULL
        /\ \A k \in 1..(Len(m_tokens) - 2) :
              ParsesOk(StreamPrefix(k)) /\ ~ParsesOk(StreamRest(k))
                  => parse_ret = "false" /\ m_ast = NULL

\* C1 witness: the first call of parse has refused  a = 'x' ; ;
C1_TrailingGarbageRefused ==
    /\ parse_calls = 1
    /\ m_tokens = OnePerLine(<<IdentToken(S_a), T_assign, StringToken(S_x), T_semi, T_semi,
                              EofToken>>)
    /\ ParsesOk(StreamPrefix(4))
    /\ parse_ret = "false"
    /\ m_ast = NULL

\* C2: two parsed rule-sets that differ only in the order of the
\* alternatives of their rule bodies are equal under bnf_ast::ast_equal,
\* whichever of the two comes first.
C2_AlternationCommutes ==
    Called("equal21") /\ AlternativesReordered(seq1, seq2)
        => ResultOf("equal12") = "true" /\ ResultOf("equal21") = "true"

\* C3: two parsed rule-sets that differ by the exchange of two distinct,
\* non-empty factors of a concatenation are unequal under bnf_ast::ast_equal
\* and under EBNF::ast_equal.
C3_ConcatenationOrderMatters ==
    Called("ebnf_equal12") /\ FactorsExchanged(seq1, seq2)
        => ResultOf("equal12") = "false" /\ ResultOf("ebnf_equal12") = "false"

\* C4: of ast_equal(p, q), ast_less_than(p, q) and ast_less_than(q, p) on two
\* parsed rule-sets exactly one is true.
C4_Trichotomy ==
    Called("less21") =>
        Cardinality({f \in {"equal12", "less12", "less21"} : ResultOf(f) = "true"}) = 1
           /\ \A f \in {"equal12", "less12", "less21"} : ResultOf(f) \in {"true", "false"}

NodeLess(i, j) == rel[1].less[i][j]
NodeEqual(i, j) == rel[1].equal[i][j]

\* C5: bnf_ast::ast_less_than is a strict order consistent with ast_equal
\* on all nodes: for the nodes a, b, c compared, never less(a, a), never
\* less(a, b) together with less(b, a), less(a, b) and less(b, c) give
\* less(a, c), and less(a, b) excludes equal(a, b).
C5_LessThanIsStrictOrder ==
    rel # <<>> =>
        /\ ~NodeLess(1, 1)
        /\ ~(NodeLess(1, 2) /\ NodeLess(2, 1))
        /\ NodeLess(1, 2) /\ NodeLess(2, 3) => NodeLess(1, 3)
        /\ NodeLess(1, 2) => ~NodeEqual(1, 2)

\* C6: canonicalization is idempotent: the sorted_clone of the sorted_clone
\* of a parsed tree is, node for node, the sorted_clone of the tree.
C6_SortedCloneIdempotent == clone2 # NULL => clone2 = clone1

HasDuplicateNames(r) ==
    \E i, j \in 1..Len(r.vec) :
        i < j /\ ast_get_rule_name(r.vec[i]) = ast_get_rule_name(r.vec[j])

\* C7: after ast_join_joinable_rules no two rules have the same name, it
\* returned true exactly if two rules of the list it was given had the same
\* name, and a second call on its result returns false.
C7_JoinLeavesNoDuplicateNames ==
    status = "joined" =>
        /\ ~HasDuplicateNames(rules)
        /\ join_ret <=> HasDuplicateNames(before)
        /\ ~ast_join_joinable_rules(rules).ret

\* C7 witness: three rules of one name were joined into one
C7_ThreeRulesJoined ==
    /\ status = "joined"
    /\ join_ret
    /\ Len(before.vec) = 3
    /\ \A i \in 1..3 : ast_get_rule_name(before.vec[i]) = S_a
    /\ Len(rules.vec) = 1

\* the indices of the rules that are the first of their name
FirstDefinitions(vec) ==
    {i \in 1..Len(vec) :
        \A j \in 1..(i - 1) : ast_get_rule_name(vec[j]) # ast_get_rule_name(vec[i])}

\* the alternatives of the rules named n from index i on, in their order
RECURSIVE AlternativesOf(_, _, _)
AlternativesOf(vec, n, i) ==
    IF i > Len(vec) THEN <<>>
    ELSE (IF ast_get_rule_name(vec[i]) = n THEN m_right(vec[i]).vec ELSE <<>>)
         \o AlternativesOf(vec, n, i + 1)

TextXThenY == RuleText(S_a, <<T_x>>) \o RuleText(S_a, <<T_y>>) \o <<EofToken>>
TextXOrY == RuleText(S_a, <<T_x, T_bar, T_y>>) \o <<EofToken>>

\* C8: after ast_join_joinable_rules the rule of each name stands where the
\* first definition of the name stood, the surviving rules in their old
\* order, its alternatives being those of all the rules of the name in
\* declaration order; a rule whose name occurs once is unchanged; and the
\* join of the parse of "a = x; a = y;" is ast_equal to the parse of
\* "a = x | y;".
C8_JoinConcatenatesInOrder ==
    status = "joined" =>
        /\ Len(rules.vec) = Cardinality(FirstDefinitions(before.vec))
        /\ \A i \in FirstDefinitions(before.vec) :
              LET pos == Cardinality({j \in FirstDefinitions(before.vec) : j <= i})
                  n == ast_get_rule_name(before.vec[i])
                  same == {j \in 1..Len(before.vec) :
                              ast_get_rule_name(before.vec[j]) = n}
              IN  /\ rules.vec[pos] =
                        BinaryAst(S_rule, m_left(before.vec[i]),
                                  SeqAst(S_expr, AlternativesOf(before.vec, n, 1)))
                  /\ same = {i} => rules.vec[pos] = before.vec[i]
        /\ before = do_parse(TextXThenY) =>
              ast_equal(rules, do_parse(TextXOrY)) = {"true"}

\* C8 witness: "a = x; a = y;" was joined into the tree of "a = x | y;"
C8_JoinedExample ==
    /\ status = "joined"
    /\ before = do_parse(TextXThenY)
    /\ rules = do_parse(TextXOrY)
    /\ ast_equal(rules, do_parse(TextXOrY)) = {"true"}

\* C9: ast_equal on two Unary nodes returns true exactly if they have the
\* same operator tag and equal arguments.
C9_UnaryEquality ==
    /\ node_equal # "none"
    /\ node1.atype = ATYPE_UNARY
    /\ node2.atype = ATYPE_UNARY
    => (node_equal = "true"
           <=> /\ node1.str = node2.str
               /\ ast_equal(m_arg(node1), m_arg(node2)) = {"true"})

\* the rules of the list before the call whose canonical body is the
\* canonical rule_expr
SameBody ==
    {i \in 1..Len(before.vec) :
        sorted_clone(m_right(before.vec[i])) = sorted_clone(rule_expr)}

\* C10: ast_add_rule on a list without duplicate names: if some rule has
\* the canonical body of rule_expr the list is left unchanged and name is
\* the name of the first such rule, and otherwise exactly one rule is
\* appended.
C10_AddRuleDeduplicatesByBody ==
    status \in {"found", "appended", "crashed"} /\ ~HasDuplicateNames(before) =>
        IF SameBody # {}
        THEN /\ status = "found"
             /\ rules = before
             /\ name = ast_get_rule_name(before.vec[MinOf(SameBody)])
        ELSE /\ status = "appended"
             /\ Len(rules.vec) = Len(before.vec) + 1
             /\ SubSeq(rules.vec, 1, Len(before.vec)) = before.vec

\* C11: ast_add_rule on a list of pairwise distinct rule names leaves the
\* names pairwise distinct; a rule it inserts is the last one, is
\* Binary("rule", Ident(name), canonical rule_expr), and the rules that
\* were there are unchanged.
C11_AddRuleKeepsNamesDistinct ==
    status \in {"found", "appended"} /\ ~HasDuplicateNames(before) =>
        /\ ~HasDuplicateNames(rules)
        /\ status = "appended" =>
              /\ Len(rules.vec) = Len(before.vec) + 1
              /\ SubSeq(rules.vec, 1, Len(before.vec)) = before.vec
              /\ \E expr \in sorted_clone(rule_expr) :
                    rules.vec[Len(rules.vec)] = BinaryAst(S_rule, IdentAst(name), expr)

\* ------------------------------------------------------------------------
\* The scanner

\* a terminal string, a comment or a special sequence is opened at position
\* k (0-based) of text and its closing delimiter does not follow
OpenedAndNotClosed(text, k) ==
    \/ /\ text[k + 1] \in {34, 39, 63}
       /\ \A j \in (k + 2)..Len(text) : text[j] # text[k + 1]
    \/ /\ k + 2 <= Len(text)
       /\ SubSeq(text, k + 1, k + 2) = <<40, 42>>
       /\ \A j \in (k + 3)..(Len(text) - 1) : SubSeq(text, j, j + 1) # <<42, 41>>

\* the characters that stand for themselves outside strings, comments and
\* special sequences: letters, digits, white space and the twelve symbols
PlainChars ==
    (97..122) \cup (65..90) \cup (48..57) \cup {32, 9, 10, 13, 12, 11}
        \cup {61, 59, 124, 44, 45, 42, 91, 93, 123, 125, 40, 41}

\* nothing but identifiers, integers, symbols and white space stands before
\* position k (0-based) of text
PlainBefore(text, k) ==
    /\ \A j \in 1..k : text[j] \in PlainChars
    /\ \A j \in 1..(k - 1) : SubSeq(text, j, j + 1) # <<40, 42>>

\* C12: when a terminal string, a comment or a special sequence is opened,
\* at the start of the input or after identifiers, integers, symbols and
\* white space, and the input ends before its closing delimiter, scan_tokens
\* returns false, an error is recorded, and the token list holds no token
\* for the unterminated lexeme.
C12_UnterminatedLexemeIsScanError ==
    scan_ret # "none" =>
        \A k \in 0..(Len(scanner_str) - 1) :
            PlainBefore(scanner_str, k) /\ OpenedAndNotClosed(scanner_str, k) =>
                /\ scan_ret = "false"
                /\ stream_errors # <<>>
                /\ \A n \in 1..Len(stream_tokens) :
                      stream_tokens[n].m_type \notin {TOK_STRING, TOK_COMMENT, TOK_SPECIAL}

\* C13: with ISO_EBNF no String token has an empty text, and an input in
\* which two quotes of the same kind stand next to each other, at its start
\* or after identifiers, integers, symbols and white space, makes
\* scan_tokens return false.
C13_NoEmptyStringToken ==
    scan_ret # "none" =>
        /\ \A n \in 1..Len(stream_tokens) :
              stream_tokens[n].m_type = TOK_STRING => stream_tokens[n].m_str # <<>>
        /\ \A k \in 0..(Len(scanner_str) - 2) :
              /\ PlainBefore(scanner_str, k)
              /\ scanner_str[k + 1] \in {34, 39}
              /\ scanner_str[k + 2] = scanner_str[k + 1]
              => scan_ret = "false"

\* the texts of the tokens, one after the other
RECURSIVE TokenTexts(_)
TokenTexts(toks) ==
    IF toks = <<>> THEN <<>> ELSE Head(toks).m_str \o TokenTexts(Tail(toks))

\* C14: a character that is not white space, a digit, a letter, a quote, "?"
\* or one of the twelve symbols, standing at the start of the input or after
\* identifiers, integers, symbols and white space, makes scan_tokens record
\* an "invalid character" error for it and return false, with the tokens of
\* the text before it in the token list and nothing else: no token for the
\* text after it and no EndOfFile token.
C14_InvalidCharacterIsFatal ==
    scan_ret # "none" =>
        \A k \in 0..(Len(scanner_str) - 1) :
            /\ PlainBefore(scanner_str, k)
            /\ scanner_str[k + 1] \notin PlainChars \cup {34, 39, 63}
            => /\ scan_ret = "false"
               /\ \E n \in 1..Len(stream_errors) :
                     /\ stream_errors[n].m_text = "invalid character: "
                     /\ stream_errors[n].ch = scanner_str[k + 1]
               /\ \A n \in 1..Len(stream_tokens) : stream_tokens[n].m_type # TOK_EOF
               /\ TokenTexts(stream_tokens) =
                     SelectSeq(SubSeq(scanner_str, 1, k), LAMBDA c : ~is_space(c))

\* ------------------------------------------------------------------------
\* The parser

\* the token list with the comments left out and every run of identifiers
\* made one identifier: the first of the run, its text followed by a space
\* and the text of the rest of the run
RECURSIVE WordsJoined(_)
WordsJoined(toks) ==
    IF toks = <<>> THEN <<>>
    ELSE IF Head(toks).m_type = TOK_COMMENT THEN WordsJoined(Tail(toks))
    ELSE LET rest == WordsJoined(Tail(toks))
         IN  IF Head(toks).m_type = TOK_IDENT /\ rest # <<>> /\ Head(rest).m_type = TOK_IDENT
             THEN <<[Head(toks) EXCEPT !.m_str = @ \o <<32>> \o Head(rest).m_str]>> \o Tail(rest)
             ELSE <<Head(toks)>> \o rest

C16_ParseFailureIsDiagnosed ==
    parse_calls = 1 /\ parse_ret = "false" => m_errors # <<>>

\* the symbols on which primary is empty
EmptyStarts == {T_semi, T_bar, T_comma, T_rparen, T_rbrace, T_rbracket}

\* empty = ;   text = | a , b ;   text = a , { a } | ;   text = { a | } ;
EmptyExamples ==
    {<<IdentToken(S_b), T_assign, T_semi, EofToken>>,
     <<IdentToken(S_b), T_assign, T_bar, IdentToken(S_a), T_comma, IdentToken(S_b), T_semi,
       EofToken>>,
     <<IdentToken(S_b), T_assign, IdentToken(S_a), T_comma, T_lbrace, IdentToken(S_a),
       T_rbrace, T_bar, T_semi, EofToken>>,
     <<IdentToken(S_b), T_assign, T_lbrace, IdentToken(S_a), T_bar, T_rbrace, T_semi,
       EofToken>>}

\* C17: visit_primary entered on one of the symbols ; | , ) } ] returns an
\* Empty node, leaves the cursor on that token and reports no error; and the
\* four grammars  empty = ;  text = | a, b;  text = a, { a } | ;  and
\* text = { a | };  each parse as one rule.
C17_EmptyPrimary ==
    /\ visit_fn = "primary" /\ (\E t \in EmptyStarts : IsSym(m_tokens, visit_at, t)) =>
          /\ visit_ast = EmptyAst
          /\ m_index = visit_at
          /\ m_errors = <<>>
    /\ \A ex \in EmptyExamples :
          /\ ParseOf(ex, 0).ret
          /\ Len(ParseOf(ex, 0).ast.vec) = 1
          /\ ParseOf(ex, 0).errs = <<>>

\* C17 witness: visit_primary was called on  } a  and gave an Empty node
\* with the cursor still on the brace
C17_EmptyOnBrace ==
    /\ visit_fn = "primary"
    /\ m_tokens = OnePerLine(<<T_rbrace, IdentToken(S_a), EofToken>>)
    /\ visit_at = 0
    /\ m_index = 0
    /\ visit_ast = EmptyAst

\* no Integer node in the tree but as the left child of a "*" Binary
RECURSIVE NoBareInteger(_)
NoBareInteger(n) ==
    CASE n.atype = ATYPE_INTEGER -> FALSE
      [] n.atype = ATYPE_BINARY /\ n.str = S_star ->
            m_left(n).atype = ATYPE_INTEGER /\ NoBareInteger(m_right(n))
      [] n.atype = ATYPE_BINARY -> NoBareInteger(m_left(n)) /\ NoBareInteger(m_right(n))
      [] n.atype = ATYPE_UNARY -> NoBareInteger(m_arg(n))
      [] n.atype = ATYPE_SEQ -> \A k \in 1..Len(n.vec) : NoBareInteger(n.vec[k])
      [] OTHER -> TRUE

\* the token at the cursor i is an Integer and the next is not the symbol *
BareIntegerAt(toks, i) ==
    type(toks, i) = TOK_INTEGER /\ ~IsSym(toks, next(toks, i), T_star)

\* C18: visit_factor entered on an Integer token that the symbol * does not
\* follow returns null and records an error, and so the parse that entered it
\* there (its cursor is left behind that Integer) has failed with an error;
\* a token list that holds such an Integer is refused by the parse that
\* starts at its first token; and in a tree that parse has built an Integer
\* node is the left child of a "*" Binary and nothing else.
C18_NoBareIntegerPrimary ==
    /\ visit_fn = "factor" /\ BareIntegerAt(m_tokens, visit_at) =>
          visit_ast = NULL /\ m_errors # <<>>
    /\ parse_calls >= 1 /\ m_index >= 1 /\ BareIntegerAt(m_tokens, m_index - 1) =>
          parse_ret = "false" /\ m_errors # <<>>
    /\ parse_calls = 1 /\ (\E i \in 0..(Len(m_tokens) - 1) : BareIntegerAt(m_tokens, i)) =>
          parse_ret = "false"
    /\ parse_ret = "true" => NoBareInteger(m_ast)

\* C18 witness: visit_factor was called on  2 'x'  and failed with an error
C18_IntegerWithoutStar ==
    /\ visit_fn = "factor"
    /\ m_tokens = OnePerLine(<<IntegerToken(S_2, 2), StringToken(S_x), EofToken>>)
    /\ visit_at = 0
    /\ visit_ast = NULL
    /\ m_errors = <<"expected '*'">>

\* ------------------------------------------------------------------------
\* The shape of a rule list

\* every Unary below n has an argument and every "*" Binary an Integer left
\* child
RECURSIVE WellFormed(_)
WellFormed(n) ==
    CASE n.atype = ATYPE_UNARY -> m_arg(n) # NULL /\ WellFormed(m_arg(n))
      [] n.atype = ATYPE_BINARY ->
            /\ n.str = S_star => m_left(n).atype = ATYPE_INTEGER
            /\ WellFormed(m_left(n)) /\ WellFormed(m_right(n))
      [] n.atype = ATYPE_SEQ -> \A k \in 1..Len(n.vec) : WellFormed(n.vec[k])
      [] n.atype \in {ATYPE_STRING, ATYPE_IDENT, ATYPE_INTEGER, ATYPE_SPECIAL, ATYPE_EMPTY} -> TRUE
      [] OTHER -> FALSE

\* a Seq "rules" of rule Binary nodes, each an Ident and an alternation Seq
\* of at least one alternative
RuleListShape(n) ==
    /\ n.atype = ATYPE_SEQ /\ n.str = S_rules
    /\ \A k \in 1..Len(n.vec) :
          /\ n.vec[k].atype = ATYPE_BINARY /\ n.vec[k].str = S_rule
          /\ m_left(n.vec[k]).atype = ATYPE_IDENT
          /\ m_right(n.vec[k]).atype = ATYPE_SEQ /\ m_right(n.vec[k]).str = S_expr
          /\ Len(m_right(n.vec[k]).vec) >= 1
    /\ WellFormed(n)

\* the names of the syntax rules of a text, in the order of the text
RECURSIVE DefinedNames(_)
DefinedNames(toks) ==
    IF Len(toks) < 2 THEN <<>>
    ELSE IF toks[1].m_type = TOK_IDENT /\ toks[2] = T_assign
         THEN <<toks[1].m_str>> \o DefinedNames(Tail(toks))
         ELSE DefinedNames(Tail(toks))

\* C20: the tree of a successful parse is a Seq "rules" with one child for
\* each syntax rule of the text, in the order of the text, and at least one;
\* every child is a rule Binary of an Ident and an alternation Seq with at
\* least one child, every Unary has an argument and every "*" Binary an
\* Integer left child; ast_join_joinable_rules and ast_add_rule, in any
\* sequence, keep that shape.
C20_RuleListShape ==
    /\ ops = 0 /\ source # <<>> =>
          /\ rules # NULL
          /\ Len(rules.vec) >= 1
          /\ [k \in 1..Len(rules.vec) |-> m_left(rules.vec[k]).str] = DefinedNames(source)
    /\ rules # NULL /\ status \notin {"crashed", "aborted"} => RuleListShape(rules)

\* C20 witness: a parsed list with the rule  b = 2 * [y];  in it has been
\* joined, its duplicates merged, and a rule has then been appended to it
C20_JoinedThenAppended ==
    /\ ops = 2
    /\ join_ret
    /\ status = "appended"
    /\ Len(DefinedNames(source)) = 3
    /\ \E k \in 1..Len(rules.vec) : m_left(rules.vec[k]).str = S_b
    /\ RuleListShape(rules)
\* ------------------------------------------------------------------------
\* The live nodes

\* C19: no node is leaked.  When parse has failed, and when ast_equal or
\* ast_less_than has returned, BaseAst::alive_count() is what it was when the
\* call was entered; and it is 0 when the test program has deleted the trees
\* it owns.
C19_NoNodeLeaked ==
    /\ test_program = "parser" /\ test_pc = "parsed" /\ test_ret = "false"
          => alive_count = alive_before
    /\ test_pc \in {"equal", "less_than"} => alive_count = alive_before
    /\ test_pc = "done" => alive_count = 0

\* a = [ 'x' ] - 2 ;   has failed in the exception of its term, after the
\* factor [ 'x' ] and the name were made
C19_FailedInATerm ==
    /\ test_program = "parser"
    /\ test_pc = "parsed"
    /\ test_ret = "false"
    /\ owned1 = NULL
    /\ test_input1 = OnePerLine(RuleText(S_a, <<T_lbracket, StringToken(S_x), T_rbracket,
                                                T_minus, IntegerToken(S_2, 2)>>)
                                \o <<EofToken>>)

\* ------------------------------------------------------------------------
\* The order of sequences

\* v1 is before v2 in the lexicographic order: the first pair of children
\* that differ decides, and a proper prefix is before the longer list
LexLess(v1, v2) ==
    LET d == {i \in 1..Len(v1) : i <= Len(v2) /\ v1[i] # v2[i]}
    IN  IF d # {} THEN ast_less_than_sorted(v1[MinOf(d)], v2[MinOf(d)])
        ELSE Len(v1) < Len(v2)

\* C21: ast_less_than on two sequences of the same tag returns whether the
\* canonical child list of the first is before that of the second in the
\* lexicographic order, the first unequal pair of children deciding and a
\* proper prefix being less than the longer list.
C21_LexicographicOrder ==
    order_fn = "less_than" /\ order_clone1 # NULL =>
        order_ret = Bool(LexLess(order_clone1.vec, order_clone2.vec))

\* the rule list parsed from the text t
RulesOf(t) == do_parse(t \o <<EofToken>>)

\* a = body ;
RuleA(body) == RuleText(S_a, body)

\* the examples of C21 (EbnfCompareTest.cpp, entries 2, 3, 9, 7 and 6), each
\* a pair of rule lists of which the first is less than the second
OrderExamples ==
    {<<RuleA(<<IdentToken(S_a)>>), RuleA(<<IdentToken(S_b)>>)>>,
     <<RuleA(<<IdentToken(S_a)>>), RuleText(S_b, <<IdentToken(S_a)>>)>>,
     <<RuleText(S_test, <<IdentToken(S_a)>>), RuleText(S_test1, <<IdentToken(S_a)>>)>>,
     <<RuleA(<<IdentToken(S_a), T_bar, IdentToken(S_b), T_bar, IdentToken(S_b)>>),
       RuleA(<<IdentToken(S_c), T_bar, IdentToken(S_b), T_bar, IdentToken(S_a)>>)>>,
     <<RuleA(<<IdentToken(S_b), T_bar, IdentToken(S_b), T_bar, IdentToken(S_a)>>),
       RuleA(<<IdentToken(S_a), T_bar, IdentToken(S_b), T_bar, IdentToken(S_c)>>)>>}

\* the part of C21 that holds: on the rule lists of its examples
\* ast_less_than returns true, and false with the arguments exchanged
C21_ExamplesOrdered ==
    /\ order_fn = "less_than"
          /\ (\E e \in OrderExamples :
                 order_ast1 = RulesOf(e[1]) /\ order_ast2 = RulesOf(e[2]))
          => order_ret = "true"
    /\ order_fn = "less_than"
          /\ (\E e \in OrderExamples :
                 order_ast1 = RulesOf(e[2]) /\ order_ast2 = RulesOf(e[1]))
          => order_ret = "false"

\* C22: ast_equal is true of two rule lists that hold the same rules, of
\* pairwise distinct names, in a different order.
C22_RuleOrderInsignificant ==
    /\ order_fn = "equal"
    /\ order_ast1.str = S_rules /\ order_ast2.str = S_rules
    /\ order_ast1 # order_ast2
    /\ order_ast2.vec \in Permuted(order_ast1.vec)
    /\ \A i, j \in 1..Len(order_ast1.vec) :
          i # j => ast_get_rule_name(order_ast1.vec[i]) # ast_get_rule_name(order_ast1.vec[j])
    => order_ret = "true"

\* C29: every index that ast_equal or ast_less_than uses on the child
\* vector of a canonical clone is smaller than the length of that clone.
C29_IndexInsideClone ==
    order_clone1 # NULL =>
        \A i \in order_used : i < Len(order_clone1.vec) /\ i < Len(order_clone2.vec)

\* ------------------------------------------------------------------------
\* The canonical form of an alternation

\* the elements of a vector
Elements(vec) == {vec[k] : k \in 1..Len(vec)}

\* what the alternative t of an "expr" may stand for in the canonical form:
\* the sets of canonical alternatives, one set for each result that the
\* canonicalization of t may have.  An alternative that is one group stands
\* for the alternatives of the group.
StandsFor(t) ==
    IF get_terms(t) /\ Len(t.vec) = 1 /\ get_group(t.vec[1])
    THEN {Elements(c.vec) : c \in sorted_clone(m_arg(t.vec[1]))}
    ELSE {{c} : c \in sorted_clone(t)}

\* the body of the one rule of a rule list
BodyOf(r) == m_right(r.vec[1])

\* C25: the children of sorted_clone(e), e an "expr", are in strictly
\* ascending ast_less_than order with no two equal, every child is the
\* canonical form of an alternative of e (of an alternative of the group,
\* for an alternative that is a single group), and every alternative of e
\* has its canonical form among the children.
C25_CanonicalAlternation ==
    clone1 # NULL =>
        LET e == BodyOf(tree)
            c == BodyOf(clone1).vec
        IN  /\ \A i, j \in 1..Len(c) :
                  i < j => ast_less_than_sorted(c[i], c[j]) /\ ~ast_equal_sorted(c[i], c[j])
            /\ \A k \in 1..Len(c) :
                  \E t \in Elements(e.vec) : \E S \in StandsFor(t) : c[k] \in S
            /\ \A t \in Elements(e.vec) :
                  \E S \in StandsFor(t) : S \subseteq Elements(c)

\* ------------------------------------------------------------------------
\* The cursor of a token stream

\* what C23 says of a call of next() made with the cursor at cursor_before
NextAsClaimed ==
    IF cursor_before = Len(cursor_tokens) - 1
    THEN cursor_ret = "false" /\ cursor_index = cursor_before
    ELSE cursor_ret = "true" /\ cursor_index = cursor_before + 1

\* C23: next() called with the cursor on the final token returns false and
\* leaves the cursor where it is; called with the cursor anywhere else it
\* moves the cursor on by one and returns true.
C23_EndOfFileSticky == cursor_call = "next" => NextAsClaimed

\* the part of C23 that holds: next() called with the cursor on a token
C23_StickyOnTokens ==
    cursor_call = "next" /\ cursor_before < Len(cursor_tokens) =>
        NextAsClaimed /\ cursor_index < Len(cursor_tokens)

\* C28: after any calls of next(), unget(n) and index(pos) on a stream that
\* holds a token the cursor is the index of a token; index(pos) with pos not
\* the index of a token returns false and leaves the cursor; unget(n) with n
\* larger than the cursor leaves it at 0.
C28_CursorOnToken ==
    /\ cursor_tokens # <<>> => cursor_index < Len(cursor_tokens)
    /\ cursor_call = "index" /\ cursor_arg >= Len(cursor_tokens) =>
          cursor_ret = "false" /\ cursor_index = cursor_before
    /\ cursor_call = "unget" /\ cursor_arg > cursor_before => cursor_index = 0

\* ------------------------------------------------------------------------
\* The run of the parser

\* C26: during a run of Parser::parse the cursor never goes back from one
\* state to the next, whether a production goes on, calls another one or
\* returns, with a node or without.
C26_NoBacktracking == [][run_index' >= run_index]_vars

\* a production has returned NULL with the cursor behind the tokens it read,
\* and the production that called it is about to go on
C26_FailedBehindItsTokens ==
    /\ run_result = "running"
    /\ run_ret = "null"
    /\ run_stack # <<>> /\ Top.fn = "term" /\ Top.pc = "ex"
    /\ run_index >= 4

\* C27: every run of Parser::parse on a non-empty token list, with or
\* without an EndOfFile token at its end, comes to return true or false.
C27_ParseTerminates == <>(run_result \in {"true", "false"})

\* the part of C27 that holds: the run on a list that ends with the
\* EndOfFile token returns
C27_TerminatesBeforeEndOfFile ==
    run_tokens[Len(run_tokens)].m_type = TOK_EOF => <>(run_result \in {"true", "false"})

\* ------------------------------------------------------------------------
\* The name that ast_add_rule hands back

\* C30: after ast_add_rule(rules, name, rule_expr) has returned,
\* ast_get_rule_body(rules, name) is not NULL and is structurally equal to
\* the canonical form of rule_expr.
C30_NameIdentifiesRule ==
    status \in {"found", "appended"} =>
        /\ ast_get_rule_body(rules, name) # NULL
        /\ ast_get_rule_body(rules, name) \in sorted_clone(rule_expr)

\* the part of C30 that holds: a rule appended under a name that needs no
\* rewriting is found by that name, unless an older rule has the name
C30_AppendedUnderPlainName ==
    status = "appended" /\ name = IdentAst(name).str
        /\ (\A i \in 1..Len(before.vec) : ast_get_rule_name(before.vec[i]) # name) =>
        ast_get_rule_body(rules, name) \in sorted_clone(rule_expr)

\* ------------------------------------------------------------------------
\* Fresh names

\* the digits of the value of the digits s, plus one
RECURSIVE DigitsSucc(_)
DigitsSucc(s) ==
    IF s = <<>> THEN <<49>>
    ELSE IF s[Len(s)] = 57 THEN DigitsSucc(SubSeq(s, 1, Len(s) - 1)) \o <<48>>
    ELSE SubSeq(s, 1, Len(s) - 1) \o <<s[Len(s)] + 1>>

\* the length of the run of digits that name ends with
RECURSIVE TrailingDigits(_)
TrailingDigits(nm) ==
    IF nm = <<>> \/ ~IsDigit(nm[Len(nm)]) THEN 0
    ELSE 1 + TrailingDigits(SubSeq(nm, 1, Len(nm) - 1))

\* what C24 says name_increment makes of the name nm
Incremented(nm) ==
    LET run == TrailingDigits(nm)
        next_digits == DigitsSucc(StripZeros(SubSeq(nm, Len(nm) - run + 1, Len(nm))))
    IN  IF run = 0 \/ run = Len(nm) THEN nm \o <<95, 48, 50>>
        ELSE SubSeq(nm, 1, Len(nm) - run)
             \o (IF Len(next_digits) < 2 THEN <<48>> \o next_digits ELSE next_digits)

\* C24: name_increment appends _02 to a name without a trailing run of
\* digits and to a name of digits only; of any other name it makes the
\* prefix followed by the value of the run plus one, in decimal with at
\* least two digits.  The result differs from the name given and from every
\* name that an earlier application was given.
C24_NameIncrement ==
    fresh_seen # {} =>
        /\ fresh_name = Incremented(fresh_before)
        /\ fresh_name # fresh_before
        /\ fresh_name \notin fresh_seen

\* the part of C24 that holds: on a name whose run of digits has a value
\* below INT_MAX the result is as stated and is a new name
C24_IncrementBelowIntMax ==
    /\ fresh_seen # {}
    /\ LET run == SubSeq(fresh_before, Len(fresh_before) - TrailingDigits(fresh_before) + 1,
                         Len(fresh_before))
       IN  FitsInt(run) /\ StripZeros(run) # <<50, 49, 52, 55, 52, 56, 51, 54, 52, 55>>
    => /\ fresh_name = Incremented(fresh_before)
       /\ fresh_name # fresh_before
       /\ fresh_name \notin fresh_seen
====
